---------------------------- MODULE Spec2Model ----------------------------
(***************************************************************************)
(* Model of the speech-analysis session orchestrator                       *)
(* (useAdvancedSpeechAnalysis in src/src/hooks/useBrowserNotifications.tsx) *)
(* together with the platform objects it drives: the recognition           *)
(* capability (browser SpeechRecognition), the Frame Extractor             *)
(* (AudioFeatureExtractor) and the Word Confidence Tracker.                *)
(*                                                                         *)
(* JavaScript is single threaded: every handler below runs to completion,  *)
(* so each handler is one action.  start() is async and has exactly one    *)
(* suspension point (the await of the extractor's start), so it is split   *)
(* at that point into StartBegin and StartResume / StartReject.            *)
(*                                                                         *)
(* Text is a sequence of characters over {"a", " "}; under TranscriptSpec, *)
(* whose runs are those of start(), abort() and result events with a       *)
(* longer transcript buffer, over {"a", "b", " "}.  A React state setter   *)
(* changes the state at once, but a callback reads the state of the render *)
(* that created it: stop() is created anew only when interimTranscript     *)
(* changed (its dependency list), and reads the interimTranscript of that  *)
(* render.  Render is the re-render that hands the caller the new          *)
(* callback.  Refs are read as they are.                                   *)
(*                                                                         *)
(* A number of the code is an IEEE 754 double and is computed as one: the  *)
(* operators F... below round every sum, product, quotient and square root *)
(* to the nearest double, a tie going to the even significand.  Counts,    *)
(* timestamps, pitches and energies are whole numbers and are kept as      *)
(* integers until the code divides or multiplies them.                     *)
(*                                                                         *)
(* The analysis functions that stop() applies to the extractor's result    *)
(* (analyzeProsody in src/src/lib/prosodyAnalyzer.ts, calculateFluency in  *)
(* src/src/lib/fluencyCalculator.ts) are operators.  Stop applies them to  *)
(* what the extractor, the tracker and the clock give it.  They are        *)
(* checked on more inputs under AnalysisSpec, whose initial states are the *)
(* bounded audio results, and under ScoreSpec, whose initial states are    *)
(* the bounded inputs of calculateFluency (word entries, duration, silence *)
(* ratio, prosody metrics); the actions of both are the statements of      *)
(* stop() after recognition was detached, in their order, and              *)
(* getFluencyAssessment.  The code of the Frame Extractor and of the Word  *)
(* Confidence Tracker is not part of the sources: the frames and the       *)
(* aggregates of a result are drawn, and so are the confidence and the     *)
(* repeat flags of the word entries, which are aligned word for word with  *)
(* the transcript.  A frame's energy is a whole number of units.           *)
(***************************************************************************)
EXTENDS Integers, Sequences, FiniteSets, TLC

\* ------------------------------------------------------------------ bounds
\* start() calls that pass the support check (one session each)
MaxSessions == 2
\* stop() invocations counted on one Frame Extractor
MaxStops == 2
\* characters held by the final-transcript buffer in the orchestrator's runs
MaxBufLen == 2
\* characters held by the final-transcript buffer in the runs of result events
\* (two chunks of one letter, each followed by its space, or four empty chunks)
MaxTranscriptLen == 4
\* results held by the result list of one recognition result event
MaxItems == 2
\* frames held by one audio analysis result
MaxFrames == 6
\* frames held by a result whose gaps or energies are all drawn
MaxVariedFrames == 5
\* word entries passed to calculateFluency
MaxWords == 3
\* characters of a raw transcript drawn for the rest of stop()
MaxRawLen == 4

\* ------------------------------------------------------------------ values
NoError == "none"
Unsupported == "Speech recognition not supported in this browser"
SP == " "
Texts == {<<>>, <<"a">>}
ErrorCodes == {"no-speech", "aborted", "network"}
Sessions == 1..MaxSessions

VARIABLES
  isAnalyzing,         \* React state
  interimTranscript,   \* React state
  error,               \* React state
  isSupported,         \* React state
  audioExtractorRef,   \* 0 (null) or the session whose extractor is referenced
  wordTrackerRef,      \* 0 (null) or the session whose tracker is referenced
  recognitionRef,      \* 0 (null) or the session whose recognition is referenced
  finalTranscriptRef,  \* accumulated final text
  isAnalyzingRef,      \* liveness flag read by onend
  nSessions,           \* number of start() calls that passed the support check
  ext,                 \* per session: state of its extractor's start() promise
  extStops,            \* per session: number of stop() calls on its extractor
  rec,                 \* per session: state of its recognition instance
  last,                \* what the handler that ran last did (return value, calls made)
  abortedSinceStart,   \* history: abort() was called since the last session start
  stoppedUpTo,         \* history: sessions 1..stoppedUpTo had stop()/abort() called
  detached,            \* history: per session, stop()/abort() aborted its instance
  finalChunks,         \* history: final chunks delivered since the last session start
  lastInterim,         \* history: interim text of the last result event still held
  renderedInterimTranscript,
                       \* interimTranscript of the last render, trimmed, which
                       \* the stop callback in the caller's hands reads
  audioAnalysis,       \* stop(): the AudioAnalysisResult under analysis
  prosody,             \* stop(): <<>> or <<prosodyMetrics>> once computed
  fluency,             \* stop(): <<>> or <<fluencyMetrics>> once computed
  rawTranscript,       \* stop(): the transcript the word confidences are for
  wordsObtained,       \* stop(): wordConfidences has been assigned
  wordConfidences,     \* stop(): the WordConfidence entries of the transcript
  durationMs,          \* stop(): Date.now() - startTimeRef.current
  summary,             \* stop(): <<>> or <<[cleanedTranscript, overallClarityScore]>>
  assessment           \* <<>> or <<getFluencyAssessment(fluencyMetrics)>>

vars == <<isAnalyzing, interimTranscript, error, isSupported, audioExtractorRef,
          wordTrackerRef, recognitionRef, finalTranscriptRef, isAnalyzingRef,
          nSessions, ext, extStops, rec, last, abortedSinceStart,
          stoppedUpTo, detached, finalChunks, lastInterim,
          renderedInterimTranscript, audioAnalysis,
          prosody, fluency, rawTranscript, wordsObtained,
          wordConfidences, durationMs, summary, assessment>>

\* the state of the hook and of its platform objects
hookVars == <<isAnalyzing, interimTranscript, error, isSupported,
              audioExtractorRef, wordTrackerRef, recognitionRef,
              finalTranscriptRef, isAnalyzingRef, nSessions, ext, extStops, rec,
              last, abortedSinceStart, stoppedUpTo, detached, finalChunks,
              lastInterim, renderedInterimTranscript>>

\* the values of the analysis part of stop()
analysisVars == <<audioAnalysis, prosody, fluency, rawTranscript,
                  wordsObtained, wordConfidences, durationMs, summary, assessment>>

\* ------------------------------------------------------------------ text
\* String.prototype.trim over the model's alphabet
RECURSIVE TrimLeft(_)
TrimLeft(s) == IF s # <<>> /\ Head(s) = SP THEN TrimLeft(Tail(s)) ELSE s

RECURSIVE TrimRight(_)
TrimRight(s) ==
  IF s # <<>> /\ s[Len(s)] = SP THEN TrimRight(SubSeq(s, 1, Len(s) - 1)) ELSE s

Trim(s) == TrimRight(TrimLeft(s))

\* a recognition result event over the given transcripts: resultIndex is
\* event.resultIndex and items are event.results[resultIndex .. length-1], the
\* part of the list the handler reads.  An item is results[i].isFinal and
\* results[i][0].transcript, and an interim item carries text; an event
\* delivers up to MaxItems items, at most one of them interim
ResultEvents(texts) ==
  LET Items == {i \in [isFinal : BOOLEAN, text : texts] : i.isFinal \/ i.text # <<>>}
      Events == {e \in UNION {[1..n -> Items] : n \in 1..MaxItems} :
                   Cardinality({i \in DOMAIN e : ~e[i].isFinal}) <= 1}
  IN {e \in [resultIndex : 0..(MaxItems - 1), items : Events] :
        e.resultIndex + Len(e.items) <= MaxItems}

\* the result events delivered in the orchestrator's runs
HookEvents == ResultEvents(Texts)

\* the result events delivered in the runs of result events
ChunkEvents == ResultEvents({<<>>, <<"a">>, <<"b">>})

\* the loop of onresult: finalText accumulates text + ' ' of the final items
RECURSIVE FinalText(_)
FinalText(items) ==
  IF items = <<>> THEN <<>>
  ELSE (IF Head(items).isFinal THEN Head(items).text \o <<SP>> ELSE <<>>)
       \o FinalText(Tail(items))

\* variant of AppendFinalText that puts the new final text in front of the buffer
PrependFinalText(buffer, finalText) == finalText \o buffer

\* onresult: if (finalText) finalTranscriptRef.current += finalText
AppendFinalText(buffer, finalText) ==
  IF finalText # <<>> THEN buffer \o finalText ELSE buffer

\* the loop of onresult: interimText accumulates the text of the interim items
RECURSIVE InterimText(_)
InterimText(items) ==
  IF items = <<>> THEN <<>>
  ELSE (IF Head(items).isFinal THEN <<>> ELSE Head(items).text)
       \o InterimText(Tail(items))

\* the loop of onresult: one addSnapshot(text, isFinal) per item, made on the
\* tracker that wordTrackerRef holds (none when it is null)
Snapshots(items, tracker) ==
  IF tracker = 0 THEN <<>>
  ELSE [i \in 1..Len(items) |->
          [text |-> items[i].text, isFinal |-> items[i].isFinal]]

\* history: the texts of the final items of one event, in delivery order
RECURSIVE Finals(_)
Finals(items) ==
  IF items = <<>> THEN <<>>
  ELSE (IF Head(items).isFinal THEN <<Head(items).text>> ELSE <<>>)
       \o Finals(Tail(items))

\* ------------------------------------------------------------------ helpers
\* what a handler did: op names the handler and sess the session whose promise
\* or recognition instance it belongs to (for start, onresult, onend); ret is the
\* value returned; started says recognition.start() was called; onError counts the
\* options.onError calls; ui says options.onInterimResult was called (with the new
\* interimTranscript); code is the error code of onerror; supported says whether
\* start() found a recognition capability on the platform; idx and items are
\* event.resultIndex and the result items from that index on of onresult, and
\* snaps the addSnapshot calls it made; raw is the rawTranscript stop() computed
\* and result holds the SpeechAnalysisResult it returned, if any
Idle == [op |-> "init", sess |-> 0, ret |-> "none", started |-> FALSE,
         onError |-> 0, ui |-> FALSE, code |-> "none", supported |-> TRUE,
         idx |-> 0, items |-> <<>>, snaps |-> <<>>, raw |-> <<>>,
         result |-> <<>>]

\* recognition.abort(): a running instance stops and will deliver onend
RecAbort(r) ==
  IF r # 0 /\ rec[r] = "running" THEN [rec EXCEPT ![r] = "ending"] ELSE rec

\* history of recognitionRef.current.abort(); recognitionRef.current = null
Detach(r) == IF r # 0 THEN [detached EXCEPT ![r] = TRUE] ELSE detached

\* recognition.start(): it either throws (swallowed by the caller) or runs
RecStart(s, throws) == [rec EXCEPT ![s] = IF throws THEN "idle" ELSE "running"]

\* variant of Benign that surfaces the aborted code
BenignNoSpeechOnly(code) == code = "no-speech"

\* onerror: codes that are not surfaced
Benign(code) == code = "no-speech" \/ code = "aborted"

\* variant of ShouldRestart with the attachment test negated
ShouldRestartDetachedOnly == isAnalyzingRef /\ recognitionRef = 0

\* onend: the auto-restart condition
ShouldRestart == isAnalyzingRef /\ recognitionRef # 0

\* stop(): finalTranscriptRef.current.trim() || interimTranscript.trim(), the
\* ref as it is and the state as the callback's render saw it
RawTranscript ==
  IF Trim(finalTranscriptRef) # <<>> THEN Trim(finalTranscriptRef)
  ELSE Trim(renderedInterimTranscript)

\* stop(): null for an empty transcript, a SpeechAnalysisResult otherwise
StopReturn(raw) == IF raw = <<>> THEN "null" ELSE "result"


\* ------------------------------------------------------------------ numbers
\* A JavaScript number is an IEEE 754 double.  Its 53-bit significand does not
\* fit the integers of TLC, so a natural number of any size is a sequence of
\* limbs below Base, the least significant first, with no zero limb at the top
Base == 32768
\* bits of one limb
LimbBits == 15
\* bits of the significand of a double
Precision == 53

RECURSIVE BigTrim(_)
BigTrim(a) ==
  IF a # <<>> /\ a[Len(a)] = 0 THEN BigTrim(SubSeq(a, 1, Len(a) - 1)) ELSE a

RECURSIVE BigFromInt(_)
BigFromInt(n) == IF n = 0 THEN <<>> ELSE <<n % Base>> \o BigFromInt(n \div Base)

RECURSIVE BigToInt(_)
BigToInt(a) == IF a = <<>> THEN 0 ELSE Head(a) + Base * BigToInt(Tail(a))

Limb(a, i) == IF i <= Len(a) THEN a[i] ELSE 0

RECURSIVE BigCmpFrom(_, _, _)
BigCmpFrom(a, b, i) ==
  IF i = 0 THEN 0
  ELSE IF a[i] < b[i] THEN -1
  ELSE IF a[i] > b[i] THEN 1
  ELSE BigCmpFrom(a, b, i - 1)

\* -1, 0 or 1 as a is below, equal to or above b
BigCmp(a, b) ==
  IF Len(a) < Len(b) THEN -1
  ELSE IF Len(a) > Len(b) THEN 1
  ELSE BigCmpFrom(a, b, Len(a))

RECURSIVE BigAddFrom(_, _, _, _)
BigAddFrom(a, b, i, carry) ==
  IF i > Len(a) /\ i > Len(b) THEN (IF carry = 0 THEN <<>> ELSE <<carry>>)
  ELSE LET s == Limb(a, i) + Limb(b, i) + carry
       IN <<s % Base>> \o BigAddFrom(a, b, i + 1, s \div Base)

BigAdd(a, b) == BigAddFrom(a, b, 1, 0)

RECURSIVE BigSubFrom(_, _, _, _)
BigSubFrom(a, b, i, borrow) ==
  IF i > Len(a) THEN <<>>
  ELSE LET d == a[i] - Limb(b, i) - borrow
       IN <<(d + Base) % Base>> \o BigSubFrom(a, b, i + 1, IF d < 0 THEN 1 ELSE 0)

\* a - b for a >= b
BigSub(a, b) == BigTrim(BigSubFrom(a, b, 1, 0))

RECURSIVE BigMulSmallFrom(_, _, _, _)
BigMulSmallFrom(a, d, i, carry) ==
  IF i > Len(a) THEN (IF carry = 0 THEN <<>> ELSE <<carry>>)
  ELSE LET p == a[i] * d + carry
       IN <<p % Base>> \o BigMulSmallFrom(a, d, i + 1, p \div Base)

\* a * d for a limb d
BigMulSmall(a, d) == IF d = 0 THEN <<>> ELSE BigMulSmallFrom(a, d, 1, 0)

\* a * Base^q
BigShiftLimbs(a, q) == IF a = <<>> THEN <<>> ELSE [i \in 1..q |-> 0] \o a

RECURSIVE BigMulFrom(_, _, _)
BigMulFrom(a, b, j) ==
  IF j > Len(b) THEN <<>>
  ELSE BigAdd(BigShiftLimbs(BigMulSmall(a, b[j]), j - 1), BigMulFrom(a, b, j + 1))

BigMul(a, b) == BigMulFrom(a, b, 1)

\* a * 2^k
BigShl(a, k) == BigMulSmall(BigShiftLimbs(a, k \div LimbBits), 2 ^ (k % LimbBits))

RECURSIVE BigDivSmallFrom(_, _, _, _)
BigDivSmallFrom(a, d, i, r) ==
  IF i = 0 THEN <<>>
  ELSE LET t == r * Base + a[i]
       IN Append(BigDivSmallFrom(a, d, i - 1, t % d), t \div d)

\* the integer part of a / d for a limb d > 0
BigDivSmall(a, d) == BigTrim(BigDivSmallFrom(a, d, Len(a), 0))

\* the integer part of a / 2^k
BigShr(a, k) ==
  IF k \div LimbBits >= Len(a) THEN <<>>
  ELSE BigDivSmall(SubSeq(a, k \div LimbBits + 1, Len(a)), 2 ^ (k % LimbBits))

RECURSIVE BitLen(_)
BitLen(n) == IF n = 0 THEN 0 ELSE 1 + BitLen(n \div 2)

\* the number of bits of a
BigBitLen(a) ==
  IF a = <<>> THEN 0 ELSE LimbBits * (Len(a) - 1) + BitLen(a[Len(a)])

\* long division: the largest digit q with q * b <= t, from the estimate qhat
RECURSIVE BigDivCorrect(_, _, _)
BigDivCorrect(t, b, qhat) ==
  IF BigCmp(BigMulSmall(b, qhat), t) > 0 THEN BigDivCorrect(t, b, qhat - 1)
  ELSE qhat

\* long division: one digit of the quotient, from the remainder r < b so far
\* and the next limb x of the dividend; the top limb of b has its top bit set
BigDivStep(r, b, x) ==
  LET t == BigTrim(<<x>> \o r)
      n == Len(b)
      estimate == (Limb(t, n + 1) * Base + Limb(t, n)) \div b[n]
      qhat == BigDivCorrect(t, b, IF estimate > Base - 1 THEN Base - 1 ELSE estimate)
  IN [q |-> qhat, r |-> BigSub(t, BigMulSmall(b, qhat))]

\* long division from limb i of the dividend down, q holding the digits found so
\* far; every digit is a limb, and it is computed before the digits after it
RECURSIVE BigDivFrom(_, _, _, _, _)
BigDivFrom(a, b, i, r, q) ==
  IF i = 0 THEN [q |-> q, r |-> r]
  ELSE LET step == BigDivStep(r, b, a[i])
       IN CASE step.q < Base -> BigDivFrom(a, b, i - 1, step.r, <<step.q>> \o q)

\* The operations on numbers and the analysis built from them reach each other
\* through the one recursive operator Number, which applies the operation
\* named op to args.  TLC's coverage bookkeeping follows every application of
\* an operator into its definition and stops at a recursive one, which keeps
\* its size linear in the size of these definitions
RECURSIVE Number(_, _)

\* the integer part q of a / b for b > 0, and whether the division is exact; the
\* leading limbs of the dividend, one fewer than the divisor has, are the first
\* remainder
BigDiv(a, b) == Number("BigDiv", <<a, b>>)

RECURSIVE BigSqrtFrom(_, _)
BigSqrtFrom(n, x) ==
  LET y == BigShr(BigAdd(x, BigDiv(n, x).q), 1)
  IN IF BigCmp(y, x) >= 0 THEN x ELSE BigSqrtFrom(n, y)

\* the integer part of the square root of n, by Newton's iteration from above
RECURSIVE IntSqrtFrom(_, _)
IntSqrtFrom(n, x) ==
  LET y == (x + n \div x) \div 2
  IN IF y >= x THEN x ELSE IntSqrtFrom(n, y)

IntSqrt(n) == IF n = 0 THEN 0 ELSE IntSqrtFrom(n, IF n > 46340 THEN 46340 ELSE n)

\* the first estimate comes from the 30 leading bits and is never below the root
BigSqrtEstimate(n) ==
  LET excess == IF BigBitLen(n) > 30 THEN BigBitLen(n) - 30 ELSE 0
      shift == excess + (excess % 2)
  IN BigShl(BigFromInt(IntSqrt(BigToInt(BigShr(n, shift))) + 1), shift \div 2)

BigSqrt(n) == Number("BigSqrt", <<n>>)

RECURSIVE LowZeroLimbs(_)
LowZeroLimbs(a) == IF Head(a) = 0 THEN 1 + LowZeroLimbs(Tail(a)) ELSE 0

RECURSIVE LowZeroBits(_)
LowZeroBits(n) == IF n % 2 = 0 THEN 1 + LowZeroBits(n \div 2) ELSE 0

\* the number of zero bits at the low end of a > 0
BigLowZeros(a) ==
  LimbBits * LowZeroLimbs(a) + LowZeroBits(a[LowZeroLimbs(a) + 1])

\* A double is s * m * 2^e with a sign s of 1 or -1, a natural number m below
\* 2^53 that is odd, and an integer e; zero is FZero.  Infinities, NaN, the
\* sign of zero and the limits of the exponent are not part of the model: the
\* code divides by no zero and its values stay far from those limits
FZero == [s |-> 1, m |-> <<>>, e |-> 0]

\* value, the values of steps being computed before it, one after the other in
\* the order of the sequence, as the statements of the code are
InOrder(steps, value) == CASE steps = steps -> value

\* the double s * n * 2^e for n below 2^53
Canonical(s, n, e) ==
  IF n = <<>> THEN FZero
  ELSE [s |-> s, m |-> BigShr(n, BigLowZeros(n)), e |-> e + BigLowZeros(n)]

\* the double nearest to s * n * 2^e, a tie going to the even significand;
\* inexact says the number rounded lies above n * 2^e by less than 2^e, and is
\* passed with an n of 55 bits or more
RoundToDouble(s, n, e, inexact) == Number("RoundToDouble", <<s, n, e, inexact>>)

\* the double of an integer
FromInt(n) == Number("FromInt", <<n>>)

\* -x
FNeg(x) == IF x.m = <<>> THEN x ELSE [x EXCEPT !.s = 0 - x.s]

\* Math.abs
FAbs(x) == [x EXCEPT !.s = 1]

\* x * y
FMul(x, y) == Number("FMul", <<x, y>>)

\* x + y
FAdd(x, y) == Number("FAdd", <<x, y>>)

\* x - y
FSub(x, y) == Number("FSub", <<x, y>>)

\* x / y for y other than zero
FDiv(x, y) == Number("FDiv", <<x, y>>)

\* Math.sqrt of x >= 0
FSqrt(x) == Number("FSqrt", <<x>>)

\* -1, 0 or 1 as x is below, equal to or above y
FCmp(x, y) == Number("FCmp", <<x, y>>)

FLt(x, y) == FCmp(x, y) < 0
FLe(x, y) == FCmp(x, y) <= 0
\* variant of FGe that leaves out equality
FGeStrict(x, y) == FCmp(x, y) > 0

FGe(x, y) == FCmp(x, y) >= 0

\* Math.min and Math.max
FMin(x, y) == IF FLt(y, x) THEN y ELSE x
FMax(x, y) == IF FLt(x, y) THEN y ELSE x

\* Math.round: the integer nearest to x, a half going up
MathRound(x) == Number("MathRound", <<x>>)

\* the double a decimal literal n/d of the code denotes
Dec(n, d) == Number("Dec", <<n, d>>)

\* the literals of the code that are not integers
Literal_0_1 == Dec(1, 10)
Literal_0_15 == Dec(3, 20)
Literal_0_2 == Dec(1, 5)
Literal_0_3 == Dec(3, 10)
Literal_0_4 == Dec(2, 5)
Literal_0_5 == Dec(1, 2)
Literal_0_8 == Dec(4, 5)
Literal_1_5 == Dec(3, 2)
Hundred == FromInt(100)

\* ------------------------------------------------------------------ analysis
\* milliseconds between two frames of the extractor
FramePeriod == 100
PAUSE_THRESHOLD_MS == 500
LONG_PAUSE_THRESHOLD_MS == 1500
\* frames of one intonation window
WindowSize == 5
\* pauseStart === null
Null == -1

\* AudioFrame values: a silent frame carries no energy and no pitch
Silent(t) == [timestamp |-> t, rms |-> 0, pitch |-> 0, isSilent |-> TRUE]
Voiced(t, p) == [timestamp |-> t, rms |-> 1, pitch |-> p, isSilent |-> FALSE]

\* time between consecutive frames: the sampling period, or a stalled sampler
Gaps == {FramePeriod, 14 * FramePeriod}
\* pitch estimates in Hz of a voiced frame (0: undetected)
Pitches == {0, 100, 300}
\* pitch estimates that differ by exactly and by about 10 %
NearPitches == {90, 100, 110}

\* what is drawn for one frame: the time since the previous frame and whether it
\* is silent or voiced at some pitch
FrameChoices(gaps, pitches) ==
  [gap : gaps, frame : {Silent(0)} \cup {Voiced(0, p) : p \in pitches}]

\* the energies drawn, in units of the noise floor's half: a frame below the
\* floor (0 or 1) is silent, a frame above it (2 or 3) is voiced
SilentEnergies == {0, 1}
VoicedEnergies == {2, 3}

\* what is drawn for one frame of varying energy at the sampling period
EnergyChoices ==
  [gap : {FramePeriod},
   frame : {[Silent(0) EXCEPT !.rms = r] : r \in SilentEnergies}
           \cup {[Voiced(0, 100) EXCEPT !.rms = r] : r \in VoicedEnergies}]

\* timestamps strictly increase; the first frame is at 0
RECURSIVE Timestamp(_, _)
Timestamp(choices, i) ==
  IF i = 1 THEN 0 ELSE Timestamp(choices, i - 1) + choices[i].gap

\* the frame sequence drawn by a sequence of choices
Frames(choices) ==
  [i \in 1..Len(choices) |->
     [choices[i].frame EXCEPT !.timestamp = Timestamp(choices, i)]]

\* AudioFeatureExtractor.createEmptyResult(): the result of a stop() with no frames
CreateEmptyResult ==
  [frames |-> <<>>, pitchRange |-> [min |-> 0, max |-> 0], averagePitch |-> 0,
   totalDuration |-> 0, silenceRatio |-> FZero]

\* the audio result with these frames; the derivations modelled read only the
\* frames, and the aggregates are left at zero
AudioResult(frames) ==
  [frames |-> frames, pitchRange |-> [min |-> 0, max |-> 0], averagePitch |-> 0,
   totalDuration |-> 0, silenceRatio |-> FZero]

\* variant of CreateEmptyProsodyMetrics with a zero rhythm score
CreateEmptyProsodyMetricsZeroRhythm ==
  [pitchVariation |-> FZero, stressEventCount |-> 0,
   averagePauseDuration |-> FZero, pauseCount |-> 0, longPauseCount |-> 0,
   speakingRate |-> "normal", intonationPatterns |-> <<>>,
   rhythmConsistency |-> FZero]

CreateEmptyProsodyMetrics ==
  [pitchVariation |-> FZero, stressEventCount |-> 0,
   averagePauseDuration |-> FZero, pauseCount |-> 0, longPauseCount |-> 0,
   speakingRate |-> "normal", intonationPatterns |-> <<>>,
   rhythmConsistency |-> FromInt(50)]

\* analyzeProsody: the pause loop from frame i on; a closed silent run is kept
\* when it lasts the threshold
RECURSIVE PauseLoop(_, _, _, _)
PauseLoop(frames, i, pauseStart, pauses) ==
  IF i > Len(frames) THEN [pauseStart |-> pauseStart, pauses |-> pauses]
  ELSE IF frames[i].isSilent
  THEN PauseLoop(frames, i + 1,
                 IF pauseStart = Null THEN frames[i].timestamp ELSE pauseStart,
                 pauses)
  ELSE IF pauseStart # Null
  THEN LET duration == frames[i].timestamp - pauseStart
       IN PauseLoop(frames, i + 1, Null,
                    IF duration >= PAUSE_THRESHOLD_MS
                    THEN Append(pauses, [start |-> pauseStart,
                                         end |-> frames[i].timestamp,
                                         duration |-> duration])
                    ELSE pauses)
  ELSE PauseLoop(frames, i + 1, Null, pauses)

\* analyzeProsody: the silent run still open after the loop, measured to the
\* last frame
TrailingPause(frames, loop) ==
  IF loop.pauseStart # Null /\ Len(frames) > 0
  THEN LET lastFrame == frames[Len(frames)]
           duration == lastFrame.timestamp - loop.pauseStart
       IN IF duration >= PAUSE_THRESHOLD_MS
          THEN Append(loop.pauses, [start |-> loop.pauseStart,
                                    end |-> lastFrame.timestamp,
                                    duration |-> duration])
          ELSE loop.pauses
  ELSE loop.pauses

\* analyzeProsody: the pauses array
Pauses(frames) == TrailingPause(frames, PauseLoop(frames, 1, Null, <<>>))

\* variant of IsLongPause with the pause threshold
IsLongPauseAtPauseThreshold(p) == p.duration >= PAUSE_THRESHOLD_MS

\* analyzeProsody: the filter of longPauseCount
IsLongPause(p) == p.duration >= LONG_PAUSE_THRESHOLD_MS

RECURSIVE SumDurations(_)
SumDurations(pauses) ==
  IF pauses = <<>> THEN 0 ELSE Head(pauses).duration + SumDurations(Tail(pauses))


\* variant of IntonationEvent that counts a change of exactly 10 % as rising or
\* falling
IntonationEventInclusive(frames, i, window) ==
  LET startPitch == window[1].pitch
      endPitch == window[Len(window)].pitch
      diff == endPitch - startPitch
      relativeDiff == IF startPitch > 0
                      THEN FMul(FDiv(FromInt(diff), FromInt(startPitch)), Hundred)
                      ELSE FZero
  IN [timestamp |-> frames[i + 1].timestamp,
      type |-> IF FLe(FromInt(10), relativeDiff) THEN "rising"
               ELSE IF FLe(relativeDiff, FromInt(-10)) THEN "falling"
               ELSE "level",
      magnitude |-> FAbs(relativeDiff)]

\* analyzeProsody: one intonation event of the window that ends before frame i
\* (i counts from 0 as in the code)
IntonationEvent(frames, i, window) == Number("IntonationEvent", <<frames, i, window>>)

\* analyzeProsody: the intonation loop, i counting from 0 as in the code
RECURSIVE IntonationLoop(_, _, _)
IntonationLoop(frames, i, patterns) ==
  IF ~(i < Len(frames)) THEN patterns
  ELSE LET window == SelectSeq(SubSeq(frames, i - WindowSize + 1, i),
                               LAMBDA f : ~f.isSilent)
       IN IntonationLoop(frames, i + WindowSize,
                         IF Len(window) < 3 THEN patterns
                         ELSE Append(patterns, IntonationEvent(frames, i, window)))

\* variant of PitchVariation without the cap at 100
PitchVariationUncapped(audioResult) ==
  LET pitchDiff == audioResult.pitchRange.max - audioResult.pitchRange.min
      relative == FDiv(FromInt(pitchDiff), FromInt(audioResult.averagePitch))
  IN IF audioResult.averagePitch > 0
     THEN InOrder(<<relative>>, FMul(relative, Hundred))
     ELSE FZero

\* analyzeProsody: pitchVariation
PitchVariation(audioResult) == Number("PitchVariation", <<audioResult>>)

\* frames.reduce((sum, f) => sum + f.rms, 0)
RECURSIVE SumRms(_)
SumRms(frames) ==
  IF Len(frames) = 0 THEN 0 ELSE frames[1].rms + SumRms(Tail(frames))

\* variant of IsStress that leaves out the silence test
IsStressAnyFrame(frames, i, avgRms) ==
  LET current == frames[i + 1]
      prev == frames[i]
      next == frames[i + 2]
  IN /\ current.rms > prev.rms
     /\ current.rms > next.rms
     /\ FLt(FMul(avgRms, Literal_1_5), FromInt(current.rms))

\* the condition of a stress event at the frame of (0-based) index i: a voiced
\* frame louder than both neighbours and than 1.5 times the mean energy
IsStress(frames, i, avgRms) == Number("IsStress", <<frames, i, avgRms>>)

\* the stress loop from (0-based) index i: the first and the last frame are not
\* visited
RECURSIVE StressLoop(_, _, _, _)
StressLoop(frames, i, avgRms, stressEvents) ==
  IF i >= Len(frames) - 1 THEN stressEvents
  ELSE IF IsStress(frames, i, avgRms)
       THEN StressLoop(frames, i + 1, avgRms,
              Append(stressEvents,
                [timestamp |-> frames[i + 1].timestamp,
                 intensity |->
                   FMin(Hundred,
                        FMul(FDiv(FromInt(frames[i + 1].rms), avgRms), FromInt(50)))]))
       ELSE StressLoop(frames, i + 1, avgRms, stressEvents)

\* the stress events of a non-empty frame sequence
StressEvents(frames) == Number("StressEvents", <<frames>>)

\* frames.filter(f => !f.isSilent).length
NonSilentCount(frames) == Len(SelectSeq(frames, LAMBDA f : ~f.isSilent))

\* variant of SpeakingRate whose boundary ratios 0.5 and 0.8 are slow and fast
SpeakingRateInclusive(audioResult) ==
  LET nonSilentDuration == NonSilentCount(audioResult.frames) * FramePeriod
      speakingRatio == IF audioResult.totalDuration > 0
                       THEN FDiv(FromInt(nonSilentDuration),
                                 FromInt(audioResult.totalDuration))
                       ELSE FZero
  IN IF FLe(speakingRatio, Literal_0_5) THEN "slow"
     ELSE IF FLe(Literal_0_8, speakingRatio) THEN "fast"
     ELSE "normal"

\* the speaking rate: the share of the total duration taken by non-silent frames
\* of FramePeriod ms each, classified at 0.5 and 0.8
SpeakingRate(audioResult) == Number("SpeakingRate", <<audioResult>>)

\* analyzeProsody: the segment loop from frame i on; a non-silent run is closed at
\* the first silent frame after it
RECURSIVE SegmentLoop(_, _, _, _)
SegmentLoop(frames, i, segmentStart, segments) ==
  IF i > Len(frames) THEN [segmentStart |-> segmentStart, segments |-> segments]
  ELSE IF ~frames[i].isSilent
  THEN SegmentLoop(frames, i + 1,
                   IF segmentStart = Null THEN frames[i].timestamp ELSE segmentStart,
                   segments)
  ELSE IF segmentStart # Null
  THEN SegmentLoop(frames, i + 1, Null,
                   Append(segments, frames[i].timestamp - segmentStart))
  ELSE SegmentLoop(frames, i + 1, Null, segments)

\* analyzeProsody: the non-silent run still open after the loop, measured to the
\* last frame
TrailingSegment(frames, loop) ==
  IF loop.segmentStart # Null /\ Len(frames) > 0
  THEN Append(loop.segments, frames[Len(frames)].timestamp - loop.segmentStart)
  ELSE loop.segments

\* analyzeProsody: the segments array, durations in ms
Segments(frames) == TrailingSegment(frames, SegmentLoop(frames, 1, Null, <<>>))

\* segments.reduce((a, b) => a + b, 0)
RECURSIVE SumSegments(_)
SumSegments(segments) ==
  IF Len(segments) = 0 THEN 0 ELSE segments[1] + SumSegments(Tail(segments))

\* segments.reduce((sum, s) => sum + Math.pow(s - avgSegment, 2), 0) from segment
\* i on, the additions in the order of the array; Math.pow(x, 2) is the
\* correctly rounded square
RECURSIVE SumSquaredDeviations(_, _, _, _)
SumSquaredDeviations(segments, avgSegment, i, sum) ==
  IF i > Len(segments) THEN sum
  ELSE LET deviation == FSub(FromInt(segments[i]), avgSegment)
           next == FAdd(sum, FMul(deviation, deviation))
       IN CASE next.s # 0 -> SumSquaredDeviations(segments, avgSegment, i + 1, next)

\* the score of the segments: 100 - cv * 100 clamped to [0, 100], where cv is the
\* standard deviation of the segment durations over their mean
RhythmScore(segments) == Number("RhythmScore", <<segments>>)

\* analyzeProsody: rhythmConsistency, 50 unless there are two segments or more
RhythmConsistency(frames) == Number("RhythmConsistency", <<frames>>)

\* analyzeProsody, every field of the metrics it returns
AnalyzeProsody(audioResult) == Number("AnalyzeProsody", <<audioResult>>)

\* calculateFluency: wordsPerMinute, from durationMinutes = durationMs / 60000
WordsPerMinute(totalWords, duration) == Number("WordsPerMinute", <<totalWords, duration>>)

\* variant of HesitationScore with the weights of fillers and repetitions
\* exchanged
HesitationScoreExchanged(pauseCount, fillerCount, repetitionCount, longPauseCount) ==
  LET score == 100 - pauseCount * 5 - fillerCount * 4 - repetitionCount * 3
                   - longPauseCount * 8
      capped == IF 100 < score THEN 100 ELSE score
  IN IF 0 > capped THEN 0 ELSE capped

\* calculateFluency: hesitationScore
HesitationScore(pauseCount, fillerCount, repetitionCount, longPauseCount) ==
  LET score == 100 - pauseCount * 5 - fillerCount * 3 - repetitionCount * 4
                   - longPauseCount * 8
      capped == IF 100 < score THEN 100 ELSE score
  IN IF 0 > capped THEN 0 ELSE capped

\* variant of OverallFluencyScore that adds fillerRatio * 30 instead of
\* subtracting it
OverallFluencyScoreFillerBonus(wordsPerMinute, fillerRatio, longPauseCount, speechToSilenceRatio, hesitationScore) ==
  LET paced == IF wordsPerMinute < 100
               THEN FSub(Hundred, FMul(FromInt(100 - wordsPerMinute), Literal_0_3))
               ELSE IF wordsPerMinute > 200
               THEN FSub(Hundred, FMul(FromInt(wordsPerMinute - 200), Literal_0_2))
               ELSE Hundred
      filled == FAdd(paced, FMul(fillerRatio, FromInt(30)))
      paused == FSub(filled, FromInt(longPauseCount * 5))
      silenced == IF FLt(speechToSilenceRatio, Literal_0_4)
                  THEN FSub(paused,
                            FMul(FSub(Literal_0_4, speechToSilenceRatio), FromInt(50)))
                  ELSE paused
      averaged == FDiv(FAdd(silenced, FromInt(hesitationScore)), FromInt(2))
  IN InOrder(<<paced, filled, paused, silenced, averaged>>,
             FMax(FZero, FMin(Hundred, averaged)))

\* variant of OverallFluencyScore that penalises a fast pace at the rate of a
\* slow one
OverallFluencyScoreFastAsSlow(wordsPerMinute, fillerRatio, longPauseCount, speechToSilenceRatio, hesitationScore) ==
  LET paced == IF wordsPerMinute < 100
               THEN FSub(Hundred, FMul(FromInt(100 - wordsPerMinute), Literal_0_3))
               ELSE IF wordsPerMinute > 200
               THEN FSub(Hundred, FMul(FromInt(wordsPerMinute - 200), Literal_0_3))
               ELSE Hundred
      filled == FSub(paced, FMul(fillerRatio, FromInt(30)))
      paused == FSub(filled, FromInt(longPauseCount * 5))
      silenced == IF FLt(speechToSilenceRatio, Literal_0_4)
                  THEN FSub(paused,
                            FMul(FSub(Literal_0_4, speechToSilenceRatio), FromInt(50)))
                  ELSE paused
      averaged == FDiv(FAdd(silenced, FromInt(hesitationScore)), FromInt(2))
  IN InOrder(<<paced, filled, paused, silenced, averaged>>,
             FMax(FZero, FMin(Hundred, averaged)))

\* calculateFluency: overallFluencyScore, the steps in the order of the code
OverallFluencyScore(wordsPerMinute, fillerRatio, longPauseCount, speechToSilenceRatio, hesitationScore) == Number("OverallFluencyScore", <<wordsPerMinute, fillerRatio, longPauseCount, speechToSilenceRatio, hesitationScore>>)

\* calculateFluency with the two pause counts it read from the prosody metrics
FluencyMetrics(words, audioResult, pauseCount, longPauseCount, duration) == Number("FluencyMetrics", <<words, audioResult, pauseCount, longPauseCount, duration>>)

\* variant of CalculateFluency that reports the long pauses as the pause count
CalculateFluencySwapped(words, audioResult, prosodyMetrics, duration) ==
  FluencyMetrics(words, audioResult, prosodyMetrics.longPauseCount,
                 prosodyMetrics.longPauseCount, duration)

\* calculateFluency
CalculateFluency(words, audioResult, prosodyMetrics, duration) == Number("CalculateFluency", <<words, audioResult, prosodyMetrics, duration>>)

\* getFluencyAssessment: issues.join(', ')
RECURSIVE JoinIssues(_)
JoinIssues(issues) ==
  IF issues = <<>> THEN <<>>
  ELSE IF Len(issues) = 1 THEN issues
  ELSE <<Head(issues), ", ">> \o JoinIssues(Tail(issues))

\* getFluencyAssessment; the summary is the sequence of the pieces of its text
GetFluencyAssessment(metrics) == Number("GetFluencyAssessment", <<metrics>>)

\* a WordConfidence entry; the word is its sequence of characters
Word(text, confidence, isFiller, isRepeat) ==
  [word |-> text, confidence |-> confidence, isFiller |-> isFiller,
   isRepeat |-> isRepeat]

\* the whitespace-separated words of a text
RECURSIVE SplitLoop(_, _, _)
SplitLoop(t, word, words) ==
  LET closed == IF word = <<>> THEN words ELSE Append(words, word)
  IN IF t = <<>> THEN closed
     ELSE IF Head(t) = SP THEN SplitLoop(Tail(t), <<>>, closed)
     ELSE SplitLoop(Tail(t), Append(word, Head(t)), words)

SplitWords(t) == SplitLoop(t, <<>>, <<>>)

\* the WordConfidence sequence stop() obtains for its raw transcript, from
\* getWordConfidences of the referenced tracker or, without one, from the static
\* createEmptyConfidences.  Both belong to the WordConfidenceTracker module,
\* which the sources do not hold: the sequence is aligned word for word with
\* the transcript, and the confidence of the words and whether a word that
\* repeats the word before it is flagged are what the method answers with.  No
\* word over the alphabet is in the vocabulary of fillers
WordConfidenceEntries(transcript, answer) ==
  LET words == SplitWords(transcript)
  IN [i \in 1..Len(words) |->
        Word(words[i], answer.confidence, FALSE,
             answer.flagsRepeats /\ i > 1 /\ words[i] = words[i - 1])]

\* Array.prototype.join(' ') of the words' texts
RECURSIVE JoinWords(_)
JoinWords(words) ==
  IF words = <<>> THEN <<>>
  ELSE IF Len(words) = 1 THEN Head(words).word
  ELSE Head(words).word \o <<SP>> \o JoinWords(Tail(words))

\* replace(/\s+/g, ' '): every run of spaces becomes one space
RECURSIVE CollapseSpaces(_)
CollapseSpaces(t) ==
  IF t = <<>> THEN <<>>
  ELSE IF Head(t) = SP /\ Len(t) > 1 /\ t[2] = SP THEN CollapseSpaces(Tail(t))
  ELSE <<Head(t)>> \o CollapseSpaces(Tail(t))

\* variant of KeptWords that keeps the repeated words
KeptWordsNotFiller(words) == SelectSeq(words, LAMBDA w : ~w.isFiller)

\* stop(): the words kept in the cleaned transcript
KeptWords(words) == SelectSeq(words, LAMBDA w : ~w.isFiller /\ ~w.isRepeat)

\* stop(): cleanedTranscript
CleanedTranscript(words) == Trim(CollapseSpaces(JoinWords(KeptWords(words))))

RECURSIVE SumConfidence(_)
SumConfidence(words) ==
  IF words = <<>> THEN 0 ELSE Head(words).confidence + SumConfidence(Tail(words))

\* stop(): avgConfidence
AvgConfidence(words) == Number("AvgConfidence", <<words>>)

\* stop(): overallClarityScore
OverallClarityScore(words, fluencyMetrics, prosodyMetrics) == Number("OverallClarityScore", <<words, fluencyMetrics, prosodyMetrics>>)

\* stop() from analyzeProsody on, for a transcript that is not empty: the
\* fields of the SpeechAnalysisResult other than rawTranscript
StopAnalysis(audioResult, words, duration) == Number("StopAnalysis", <<audioResult, words, duration>>)

\* ------------------------------------------------------------------ definitions
\* what each operation named above computes: the operation named op applied to
\* args, which are values by then
Number(op, args) ==
  CASE op = "FromInt" /\ Len(args) = 1 ->   \* FromInt(n)
       LET n == args[1]
       IN
         Canonical(IF n < 0 THEN -1 ELSE 1, BigFromInt(IF n < 0 THEN 0 - n ELSE n), 0)
    [] op = "FCmp" /\ Len(args) = 2 ->   \* FCmp(x, y)
       LET x == args[1]
           y == args[2]
       IN
         LET sx == IF x.m = <<>> THEN 0 ELSE x.s
             sy == IF y.m = <<>> THEN 0 ELSE y.s
             tx == BigBitLen(x.m) + x.e
             ty == BigBitLen(y.m) + y.e
             e == IF x.e < y.e THEN x.e ELSE y.e
         IN IF sx # sy THEN (IF sx < sy THEN -1 ELSE 1)
            ELSE IF sx = 0 THEN 0
            ELSE IF tx # ty THEN (IF tx < ty THEN 0 - sx ELSE sx)
            ELSE sx * BigCmp(BigShl(x.m, x.e - e), BigShl(y.m, y.e - e))
    [] op = "FAdd" /\ Len(args) = 2 ->   \* FAdd(x, y)
       LET x == args[1]
           y == args[2]
       IN
         LET e == IF x.e < y.e THEN x.e ELSE y.e
             a == BigShl(x.m, x.e - e)
             b == BigShl(y.m, y.e - e)
             c == BigCmp(a, b)
         IN IF x.s = y.s THEN RoundToDouble(x.s, BigAdd(a, b), e, FALSE)
            ELSE IF c = 0 THEN FZero
            ELSE IF c > 0 THEN RoundToDouble(x.s, BigSub(a, b), e, FALSE)
            ELSE RoundToDouble(y.s, BigSub(b, a), e, FALSE)
    [] op = "FMul" /\ Len(args) = 2 ->   \* FMul(x, y)
       LET x == args[1]
           y == args[2]
       IN
         RoundToDouble(x.s * y.s, BigMul(x.m, y.m), x.e + y.e, FALSE)
    [] op = "FSub" /\ Len(args) = 2 ->   \* FSub(x, y)
       LET x == args[1]
           y == args[2]
       IN
         FAdd(x, FNeg(y))
    [] op = "FDiv" /\ Len(args) = 2 ->   \* FDiv(x, y)
       LET x == args[1]
           y == args[2]
       IN
         IF x.m = <<>> THEN FZero
         ELSE LET k == Precision + 2 + BigBitLen(y.m) - BigBitLen(x.m)
                  d == BigDiv(BigShl(x.m, k), y.m)
              IN RoundToDouble(x.s * y.s, d.q, x.e - y.e - k, ~d.exact)
    [] op = "MathRound" /\ Len(args) = 1 ->   \* MathRound(x)
       LET x == args[1]
       IN
         IF x.e >= 0 THEN x.s * BigToInt(BigShl(x.m, x.e))
         ELSE LET k == 0 - x.e
                  half == BigShl(<<1>>, k - 1)
              IN IF x.s = 1 THEN BigToInt(BigShr(BigAdd(x.m, half), k))
                 ELSE IF BigCmp(x.m, half) <= 0 THEN 0
                 ELSE 0 - BigToInt(BigShr(BigAdd(BigSub(x.m, half),
                                                 BigSub(BigShl(<<1>>, k), <<1>>)), k))
    [] op = "BigDiv" /\ Len(args) = 2 ->   \* BigDiv(a, b)
       LET a == args[1]
           b == args[2]
       IN
         LET s == LimbBits - BitLen(b[Len(b)])
             dividend == BigShl(a, s)
             first == IF Len(dividend) < Len(b) THEN 0 ELSE Len(dividend) - Len(b) + 1
             x == BigDivFrom(dividend, BigShl(b, s), first,
                             SubSeq(dividend, first + 1, Len(dividend)), <<>>)
         IN [q |-> BigTrim(x.q), exact |-> x.r = <<>>]
    [] op = "BigSqrt" /\ Len(args) = 1 ->   \* BigSqrt(n)
       LET n == args[1]
       IN
         IF n = <<>> THEN <<>>
         ELSE BigSqrtFrom(n, BigSqrtEstimate(n))
    [] op = "RoundToDouble" /\ Len(args) = 4 ->   \* RoundToDouble(s, n, e, inexact)
       LET s == args[1]
           n == args[2]
           e == args[3]
           inexact == args[4]
       IN
         IF BigBitLen(n) <= Precision THEN Canonical(s, n, e)
         ELSE LET k == BigBitLen(n) - Precision
                  q == BigShr(n, k)
                  c == BigCmp(BigSub(n, BigShl(q, k)), BigShl(<<1>>, k - 1))
                  up == c > 0 \/ (c = 0 /\ (inexact \/ q[1] % 2 = 1))
              IN Canonical(s, IF up THEN BigAdd(q, <<1>>) ELSE q, e + k)
    [] op = "FSqrt" /\ Len(args) = 1 ->   \* FSqrt(x)
       LET x == args[1]
       IN
         IF x.m = <<>> THEN FZero
         ELSE LET k0 == 2 * Precision + 4 - BigBitLen(x.m)
                  k == IF (x.e - k0) % 2 = 0 THEN k0 ELSE k0 + 1
                  n == BigShl(x.m, k)
                  r == BigSqrt(n)
              IN RoundToDouble(1, r, (x.e - k) \div 2, BigMul(r, r) # n)
    [] op = "Dec" /\ Len(args) = 2 ->   \* Dec(n, d)
       LET n == args[1]
           d == args[2]
       IN
         FDiv(FromInt(n), FromInt(d))
    [] op = "IntonationEvent" /\ Len(args) = 3 ->   \* IntonationEvent(frames, i, window)
       LET frames == args[1]
           i == args[2]
           window == args[3]
       IN
         LET startPitch == window[1].pitch
             endPitch == window[Len(window)].pitch
             diff == endPitch - startPitch
             relativeDiff == IF startPitch > 0
                             THEN FMul(FDiv(FromInt(diff), FromInt(startPitch)), Hundred)
                             ELSE FZero
         IN [timestamp |-> frames[i + 1].timestamp,
             type |-> IF FLt(FromInt(10), relativeDiff) THEN "rising"
                      ELSE IF FLt(relativeDiff, FromInt(-10)) THEN "falling"
                      ELSE "level",
             magnitude |-> FAbs(relativeDiff)]
    [] op = "PitchVariation" /\ Len(args) = 1 ->   \* PitchVariation(audioResult)
       LET audioResult == args[1]
       IN
         LET pitchDiff == audioResult.pitchRange.max - audioResult.pitchRange.min
             relative == FDiv(FromInt(pitchDiff), FromInt(audioResult.averagePitch))
             scaled == IF audioResult.averagePitch > 0 THEN FMul(relative, Hundred)
                       ELSE FZero
         IN IF audioResult.averagePitch > 0
            THEN InOrder(<<relative, scaled>>, FMin(Hundred, scaled))
            ELSE FMin(Hundred, scaled)
    [] op = "IsStress" /\ Len(args) = 3 ->   \* IsStress(frames, i, avgRms)
       LET frames == args[1]
           i == args[2]
           avgRms == args[3]
       IN
         LET current == frames[i + 1]
             prev == frames[i]
             next == frames[i + 2]
         IN /\ ~current.isSilent
            /\ current.rms > prev.rms
            /\ current.rms > next.rms
            /\ FLt(FMul(avgRms, Literal_1_5), FromInt(current.rms))
    [] op = "StressEvents" /\ Len(args) = 1 ->   \* StressEvents(frames)
       LET frames == args[1]
       IN
         StressLoop(frames, 1, FDiv(FromInt(SumRms(frames)), FromInt(Len(frames))), <<>>)
    [] op = "SpeakingRate" /\ Len(args) = 1 ->   \* SpeakingRate(audioResult)
       LET audioResult == args[1]
       IN
         LET nonSilentDuration == NonSilentCount(audioResult.frames) * FramePeriod
             speakingRatio == IF audioResult.totalDuration > 0
                              THEN FDiv(FromInt(nonSilentDuration),
                                        FromInt(audioResult.totalDuration))
                              ELSE FZero
         IN IF FLt(speakingRatio, Literal_0_5) THEN "slow"
            ELSE IF FLt(Literal_0_8, speakingRatio) THEN "fast"
            ELSE "normal"
    [] op = "RhythmScore" /\ Len(args) = 1 ->   \* RhythmScore(segments)
       LET segments == args[1]
       IN
         LET avgSegment == FDiv(FromInt(SumSegments(segments)), FromInt(Len(segments)))
             variance == FDiv(SumSquaredDeviations(segments, avgSegment, 1, FZero),
                              FromInt(Len(segments)))
             stdDev == FSqrt(variance)
             cv == IF FLt(FZero, avgSegment) THEN FDiv(stdDev, avgSegment) ELSE FZero
             scaled == FMul(cv, Hundred)
             score == FSub(Hundred, scaled)
         IN InOrder(<<avgSegment, variance, stdDev, cv, scaled, score>>,
                    FMax(FZero, FMin(Hundred, score)))
    [] op = "RhythmConsistency" /\ Len(args) = 1 ->   \* RhythmConsistency(frames)
       LET frames == args[1]
       IN
         LET segments == Segments(frames)
         IN IF Len(segments) > 1 THEN RhythmScore(segments) ELSE FromInt(50)
    [] op = "AnalyzeProsody" /\ Len(args) = 1 ->   \* AnalyzeProsody(audioResult)
       LET audioResult == args[1]
       IN
         LET frames == audioResult.frames IN
         IF Len(frames) = 0 THEN CreateEmptyProsodyMetrics
         ELSE LET pauses == Pauses(frames)
                  pauseCount == Len(pauses)
              IN [pitchVariation |-> PitchVariation(audioResult),
                  stressEventCount |-> Len(StressEvents(frames)),
                  averagePauseDuration |->
                    IF pauseCount > 0
                    THEN FDiv(FromInt(SumDurations(pauses)), FromInt(pauseCount))
                    ELSE FZero,
                  pauseCount |-> pauseCount,
                  longPauseCount |-> Len(SelectSeq(pauses, IsLongPause)),
                  speakingRate |-> SpeakingRate(audioResult),
                  intonationPatterns |-> IntonationLoop(frames, WindowSize, <<>>),
                  rhythmConsistency |-> RhythmConsistency(frames)]
    [] op = "WordsPerMinute" /\ Len(args) = 2 ->   \* WordsPerMinute(totalWords, duration)
       LET totalWords == args[1]
           duration == args[2]
       IN
         LET durationMinutes == FDiv(FromInt(duration), FromInt(60000))
             perMinute == FDiv(FromInt(totalWords), durationMinutes)
         IN IF FLt(FZero, durationMinutes)
            THEN InOrder(<<perMinute>>, MathRound(perMinute))
            ELSE 0
    [] op = "OverallFluencyScore" /\ Len(args) = 5 ->   \* OverallFluencyScore(wordsPerMinute, fillerRatio, longPauseCount, speechToSilenceRatio, hesitationScore)
       LET wordsPerMinute == args[1]
           fillerRatio == args[2]
           longPauseCount == args[3]
           speechToSilenceRatio == args[4]
           hesitationScore == args[5]
       IN
         LET paced == IF wordsPerMinute < 100
                      THEN FSub(Hundred, FMul(FromInt(100 - wordsPerMinute), Literal_0_3))
                      ELSE IF wordsPerMinute > 200
                      THEN FSub(Hundred, FMul(FromInt(wordsPerMinute - 200), Literal_0_2))
                      ELSE Hundred
             filled == FSub(paced, FMul(fillerRatio, FromInt(30)))
             paused == FSub(filled, FromInt(longPauseCount * 5))
             silenced == IF FLt(speechToSilenceRatio, Literal_0_4)
                         THEN FSub(paused,
                                   FMul(FSub(Literal_0_4, speechToSilenceRatio), FromInt(50)))
                         ELSE paused
             averaged == FDiv(FAdd(silenced, FromInt(hesitationScore)), FromInt(2))
         IN InOrder(<<paced, filled, paused, silenced, averaged>>,
                    FMax(FZero, FMin(Hundred, averaged)))
    [] op = "FluencyMetrics" /\ Len(args) = 5 ->   \* FluencyMetrics(words, audioResult, pauseCount, longPauseCount, duration)
       LET words == args[1]
           audioResult == args[2]
           pauseCount == args[3]
           longPauseCount == args[4]
           duration == args[5]
       IN
         LET totalWords == Len(words)
             wordsPerMinute == WordsPerMinute(totalWords, duration)
             fillerCount == Len(SelectSeq(words, LAMBDA w : w.isFiller))
             fillerRatio == IF totalWords > 0
                            THEN FDiv(FromInt(fillerCount), FromInt(totalWords))
                            ELSE FZero
             repetitionCount == Len(SelectSeq(words, LAMBDA w : w.isRepeat))
             hesitationScore == HesitationScore(pauseCount, fillerCount, repetitionCount,
                                                longPauseCount)
             speechToSilenceRatio == FSub(FromInt(1), audioResult.silenceRatio)
         IN [wordsPerMinute |-> wordsPerMinute,
             pauseCount |-> pauseCount,
             longPauseCount |-> longPauseCount,
             fillerCount |-> fillerCount,
             fillerRatio |-> fillerRatio,
             repetitionCount |-> repetitionCount,
             hesitationScore |-> hesitationScore,
             speechToSilenceRatio |-> speechToSilenceRatio,
             overallFluencyScore |->
               OverallFluencyScore(wordsPerMinute, fillerRatio, longPauseCount,
                                   speechToSilenceRatio, hesitationScore)]
    [] op = "CalculateFluency" /\ Len(args) = 4 ->   \* CalculateFluency(words, audioResult, prosodyMetrics, duration)
       LET words == args[1]
           audioResult == args[2]
           prosodyMetrics == args[3]
           duration == args[4]
       IN
         FluencyMetrics(words, audioResult, prosodyMetrics.pauseCount,
                        prosodyMetrics.longPauseCount, duration)
    [] op = "GetFluencyAssessment" /\ Len(args) = 1 ->   \* GetFluencyAssessment(metrics)
       LET metrics == args[1]
       IN
         LET score == metrics.overallFluencyScore
             goodIssues ==
               (IF metrics.wordsPerMinute < 110 THEN <<"slightly slow pace">> ELSE <<>>)
               \o (IF metrics.wordsPerMinute > 190 THEN <<"slightly fast pace">> ELSE <<>>)
               \o (IF FLt(Literal_0_1, metrics.fillerRatio) THEN <<"some filler words">>
                   ELSE <<>>)
               \o (IF metrics.longPauseCount > 2 THEN <<"occasional long pauses">>
                   ELSE <<>>)
             fairIssues ==
               (IF metrics.wordsPerMinute < 100 THEN <<"slow pace">> ELSE <<>>)
               \o (IF FLt(Literal_0_15, metrics.fillerRatio) THEN <<"frequent filler words">>
                   ELSE <<>>)
               \o (IF metrics.longPauseCount > 4 THEN <<"frequent long pauses">>
                   ELSE <<>>)
         IN IF FGe(score, FromInt(80))
            THEN [level |-> "excellent",
                  summary |-> <<"Excellent fluency with natural pacing and minimal hesitation.">>]
            ELSE IF FGe(score, FromInt(60))
            THEN [level |-> "good",
                  summary |-> IF Len(goodIssues) > 0
                              THEN <<"Good fluency with ">> \o JoinIssues(goodIssues) \o <<".">>
                              ELSE <<"Good fluency with room for minor improvements.">>]
            ELSE IF FGe(score, FromInt(40))
            THEN [level |-> "fair",
                  summary |-> IF Len(fairIssues) > 0
                              THEN <<"Fair fluency - work on ">> \o JoinIssues(fairIssues)
                                   \o <<".">>
                              ELSE <<"Fair fluency with noticeable hesitation.">>]
            ELSE [level |-> "needs_improvement",
                  summary |-> <<"Fluency needs significant improvement. Focus on reducing pauses and fillers.">>]
    [] op = "AvgConfidence" /\ Len(args) = 1 ->   \* AvgConfidence(words)
       LET words == args[1]
       IN
         IF Len(words) > 0
         THEN FDiv(FromInt(SumConfidence(words)), FromInt(Len(words)))
         ELSE FZero
    [] op = "OverallClarityScore" /\ Len(args) = 3 ->   \* OverallClarityScore(words, fluencyMetrics, prosodyMetrics)
       LET words == args[1]
           fluencyMetrics == args[2]
           prosodyMetrics == args[3]
       IN
         LET avgConfidence == AvgConfidence(words)
             confident == FMul(avgConfidence, Literal_0_4)
             fluent == FAdd(confident, FMul(fluencyMetrics.overallFluencyScore, Literal_0_3))
             varied == FAdd(fluent, FMul(prosodyMetrics.pitchVariation, Literal_0_15))
             rhythmic == FAdd(varied, FMul(prosodyMetrics.rhythmConsistency, Literal_0_15))
         IN InOrder(<<avgConfidence, confident, fluent, varied, rhythmic>>,
                    MathRound(rhythmic))
    [] op = "StopAnalysis" /\ Len(args) = 3 ->   \* StopAnalysis(audioResult, words, duration)
       LET audioResult == args[1]
           words == args[2]
           duration == args[3]
       IN
         LET prosodyMetrics == AnalyzeProsody(audioResult)
             fluencyMetrics == CalculateFluency(words, audioResult,
                                                prosodyMetrics, duration)
         IN [prosodyMetrics |-> prosodyMetrics,
             wordConfidences |-> words,
             fluencyMetrics |-> fluencyMetrics,
             cleanedTranscript |-> CleanedTranscript(words),
             audioAnalysis |-> audioResult,
             durationMs |-> duration,
             overallClarityScore |->
               OverallClarityScore(words, fluencyMetrics, prosodyMetrics)]

\* what a referenced extractor returns from stop(): a recording without frames,
\* or one of 2.6 s with two pauses, one of them long
ExtractorResultSeq ==
  <<CreateEmptyResult,
    [frames |-> <<Voiced(0, 110), Silent(100), Silent(200),
                  [Voiced(700, 110) EXCEPT !.rms = 3], Voiced(800, 110),
                  Voiced(900, 120), Silent(1000), Voiced(2600, 120)>>,
     pitchRange |-> [min |-> 110, max |-> 120], averagePitch |-> 115,
     totalDuration |-> 2600, silenceRatio |-> Dec(3, 8)]>>

\* what a method of the word tracker answers with: the confidence it gives
\* the words, and whether it flags a word that repeats the word before it
TrackerAnswerSeq ==
  <<[confidence |-> 50, flagsRepeats |-> TRUE],
    [confidence |-> 50, flagsRepeats |-> FALSE]>>

\* Date.now() - startTimeRef.current at stop(), in ms
ClockDurationSeq == <<1600>>

\* the transcripts stop() can find: trimmed, the buffer followed by the interim
\* text of one event; for the empty one stop() returns before its analysis
HeldTexts ==
  {t \in UNION {[1..n -> {"a", SP}] : n \in 0..(MaxBufLen + MaxItems)} :
     Trim(t) = t}

\* the transcripts of HeldTexts, in some order
HeldTextSeq ==
  LET RECURSIVE SetToSeq(_)
      SetToSeq(S) ==
        IF S = {} THEN <<>>
        ELSE LET x == CHOOSE y \in S : TRUE IN <<x>> \o SetToSeq(S \ {x})
  IN SetToSeq(HeldTexts)

\* the word confidences stop() can obtain for a transcript: those of each
\* answer of TrackerAnswerSeq
WordListSeq ==
  [k \in 1..(Len(HeldTextSeq) * Len(TrackerAnswerSeq)) |->
     WordConfidenceEntries(HeldTextSeq[((k - 1) \div Len(TrackerAnswerSeq)) + 1],
                           TrackerAnswerSeq[((k - 1) % Len(TrackerAnswerSeq)) + 1])]

\* the position of the values stop() hands to its analysis in StopInputSeq
StopInputIndex(a, w, d) ==
  ((a - 1) * Len(WordListSeq) + (w - 1)) * Len(ClockDurationSeq) + d

\* the values stop() can hand to its analysis
StopInputSeq ==
  [i \in 1..StopInputIndex(Len(ExtractorResultSeq), Len(WordListSeq),
                           Len(ClockDurationSeq)) |->
     [audioAnalysis |->
        ExtractorResultSeq[((i - 1) \div (Len(WordListSeq) * Len(ClockDurationSeq))) + 1],
      wordConfidences |->
        WordListSeq[(((i - 1) \div Len(ClockDurationSeq)) % Len(WordListSeq)) + 1],
      durationMs |-> ClockDurationSeq[((i - 1) % Len(ClockDurationSeq)) + 1]]]

\* StopAnalysis of every value of StopInputSeq, each computed once
StopAnalyses ==
  [i \in DOMAIN StopInputSeq |->
     StopAnalysis(StopInputSeq[i].audioAnalysis, StopInputSeq[i].wordConfidences,
                  StopInputSeq[i].durationMs)]

\* StopAnalysis of a value of StopInputSeq, looked up by the first position of
\* each value in its sequence
StopAnalysisOf(audioResult, words, duration) ==
  LET IndexIn(seq, x) ==
        CHOOSE i \in DOMAIN seq : seq[i] = x /\ \A j \in 1..(i - 1) : seq[j] # x
  IN StopAnalyses[StopInputIndex(IndexIn(ExtractorResultSeq, audioResult),
                                 IndexIn(WordListSeq, words),
                                 IndexIn(ClockDurationSeq, duration))]



\* ------------------------------------------------------------------ Init
\* the hook after its first render
HookInit ==
  /\ isAnalyzing = FALSE
  /\ interimTranscript = <<>>
  /\ error = NoError
  /\ isSupported = TRUE
  /\ audioExtractorRef = 0
  /\ wordTrackerRef = 0
  /\ recognitionRef = 0
  /\ finalTranscriptRef = <<>>
  /\ isAnalyzingRef = FALSE
  /\ nSessions = 0
  /\ ext = [s \in Sessions |-> "none"]
  /\ extStops = [s \in Sessions |-> 0]
  /\ rec = [s \in Sessions |-> "none"]
  /\ last = Idle
  /\ abortedSinceStart = FALSE
  /\ stoppedUpTo = 0
  /\ detached = [s \in Sessions |-> FALSE]
  /\ finalChunks = <<>>
  /\ lastInterim = <<>>
  /\ renderedInterimTranscript = <<>>

Init ==
  /\ HookInit
  /\ audioAnalysis = CreateEmptyResult
  /\ prosody = <<>>
  /\ fluency = <<>>
  /\ rawTranscript = <<>>
  /\ wordsObtained = FALSE
  /\ wordConfidences = <<>>
  /\ durationMs = 0
  /\ summary = <<>>
  /\ assessment = <<>>

\* ------------------------------------------------------------------ start()
\* variant of StartUnsupported that runs the transcript resets before the check
StartUnsupportedAfterReset ==
  /\ isSupported' = FALSE
  /\ error' = Unsupported
  /\ interimTranscript' = <<>>
  /\ finalTranscriptRef' = <<>>
  /\ last' = [Idle EXCEPT !.op = "start", !.ret = "false", !.supported = FALSE]
  /\ UNCHANGED <<isAnalyzing, audioExtractorRef, wordTrackerRef, recognitionRef,
                 isAnalyzingRef, nSessions, ext, extStops, rec,
                 abortedSinceStart, stoppedUpTo, detached, finalChunks,
                 lastInterim>>
  /\ UNCHANGED renderedInterimTranscript
  /\ UNCHANGED analysisVars

\* start() on a platform without a recognition capability
StartUnsupported ==
  /\ isSupported' = FALSE
  /\ error' = Unsupported
  /\ last' = [Idle EXCEPT !.op = "start", !.ret = "false", !.supported = FALSE]
  /\ UNCHANGED <<isAnalyzing, interimTranscript, audioExtractorRef, wordTrackerRef,
                 recognitionRef, finalTranscriptRef, isAnalyzingRef, nSessions,
                 ext, extStops, rec, abortedSinceStart, stoppedUpTo,
                 detached, finalChunks, lastInterim>>
  /\ UNCHANGED renderedInterimTranscript
  /\ UNCHANGED analysisVars

\* start() up to its await: resets, new extractor, extractor.start(stream) called
StartBegin ==
  /\ nSessions < MaxSessions
  /\ LET s == nSessions + 1 IN
     /\ error' = NoError
     /\ isAnalyzing' = TRUE
     /\ isAnalyzingRef' = TRUE
     /\ interimTranscript' = <<>>
     /\ finalTranscriptRef' = <<>>
     /\ nSessions' = s
     /\ audioExtractorRef' = s
     /\ ext' = [ext EXCEPT ![s] = "pending"]
     /\ last' = [Idle EXCEPT !.op = "start", !.sess = s, !.ret = "pending"]
  /\ abortedSinceStart' = FALSE
  /\ finalChunks' = <<>>
  /\ lastInterim' = <<>>
  /\ UNCHANGED <<isSupported, wordTrackerRef, recognitionRef, extStops, rec,
                 stoppedUpTo, detached>>
  /\ UNCHANGED renderedInterimTranscript
  /\ UNCHANGED analysisVars

\* start() after its await resolved: tracker, recognition instance, handlers, start
StartResume(s, throws) ==
  /\ ext[s] = "pending"
  /\ ext' = [ext EXCEPT ![s] = "active"]
  /\ wordTrackerRef' = s
  /\ recognitionRef' = s
  /\ rec' = RecStart(s, throws)
  /\ last' = [Idle EXCEPT !.op = "start_resumed", !.sess = s, !.ret = "true",
                          !.started = TRUE]
  /\ UNCHANGED <<isAnalyzing, interimTranscript, error, isSupported,
                 audioExtractorRef, finalTranscriptRef, isAnalyzingRef, nSessions,
                 extStops, abortedSinceStart, stoppedUpTo, detached, finalChunks,
                 lastInterim>>
  /\ UNCHANGED renderedInterimTranscript
  /\ UNCHANGED analysisVars

\* start() after its await rejected: the rejection propagates, nothing is undone
StartReject(s) ==
  /\ ext[s] = "pending"
  /\ ext' = [ext EXCEPT ![s] = "rejected"]
  /\ last' = [Idle EXCEPT !.op = "start_rejected", !.sess = s, !.ret = "rejected"]
  /\ UNCHANGED <<isAnalyzing, interimTranscript, error, isSupported,
                 audioExtractorRef, wordTrackerRef, recognitionRef,
                 finalTranscriptRef, isAnalyzingRef, nSessions, extStops, rec,
                 abortedSinceStart, stoppedUpTo, detached, finalChunks,
                 lastInterim>>
  /\ UNCHANGED renderedInterimTranscript
  /\ UNCHANGED analysisVars

\* ------------------------------------------------------------------ handlers
\* recognition.onresult of session s's instance
OnResult(s, resultIndex, items) ==
  /\ rec[s] = "running"
  /\ LET finalText == FinalText(items)
         buffer == AppendFinalText(finalTranscriptRef, finalText)
         combined == buffer \o InterimText(items)
     IN
     /\ finalTranscriptRef' = buffer
     /\ interimTranscript' = combined
     /\ last' = [Idle EXCEPT !.op = "onresult", !.sess = s, !.ui = TRUE,
                             !.idx = resultIndex, !.items = items,
                             !.snaps = Snapshots(items, wordTrackerRef)]
  /\ finalChunks' = finalChunks \o Finals(items)
  /\ lastInterim' = InterimText(items)
  /\ UNCHANGED <<isAnalyzing, error, isSupported, audioExtractorRef, wordTrackerRef,
                 recognitionRef, isAnalyzingRef, nSessions, ext, extStops, rec,
                 abortedSinceStart, stoppedUpTo, detached>>
  /\ UNCHANGED renderedInterimTranscript
  /\ UNCHANGED analysisVars

\* recognition.onerror of session s's instance
OnError(s, code) ==
  /\ rec[s] \in {"running", "ending"}
  /\ error' = IF Benign(code) THEN error ELSE code
  /\ last' = [Idle EXCEPT !.op = "onerror", !.code = code,
                          !.onError = IF Benign(code) THEN 0 ELSE 1]
  /\ UNCHANGED <<isAnalyzing, interimTranscript, isSupported, audioExtractorRef,
                 wordTrackerRef, recognitionRef, finalTranscriptRef, isAnalyzingRef,
                 nSessions, ext, extStops, rec, abortedSinceStart,
                 stoppedUpTo, detached, finalChunks, lastInterim>>
  /\ UNCHANGED renderedInterimTranscript
  /\ UNCHANGED analysisVars

\* recognition.onend of session s's instance (spontaneous end, or after abort())
OnEnd(s, throws) ==
  /\ rec[s] \in {"running", "ending"}
  /\ IF ShouldRestart
     THEN /\ rec' = RecStart(s, throws)
          /\ last' = [Idle EXCEPT !.op = "onend", !.sess = s, !.started = TRUE]
     ELSE /\ rec' = [rec EXCEPT ![s] = "idle"]
          /\ last' = [Idle EXCEPT !.op = "onend", !.sess = s]
  /\ UNCHANGED <<isAnalyzing, interimTranscript, error, isSupported,
                 audioExtractorRef, wordTrackerRef, recognitionRef,
                 finalTranscriptRef, isAnalyzingRef, nSessions, ext, extStops,
                 abortedSinceStart, stoppedUpTo, detached, finalChunks,
                 lastInterim>>
  /\ UNCHANGED renderedInterimTranscript
  /\ UNCHANGED analysisVars

\* ------------------------------------------------------------------ stop()
\* stop(), from the render that created it.  ret says whether it returned null
\* or a SpeechAnalysisResult, raw is the rawTranscript it computed and result
\* the result returned.  extracted is what the referenced extractor's stop()
\* returns, tracked what the word tracker's getWordConfidences, or without a
\* referenced tracker the static createEmptyConfidences, answers, and elapsed
\* the time since start() read the clock; a value this call does not use is
\* the first of its sequence
Stop(extracted, tracked, elapsed) ==
  /\ audioExtractorRef # 0 => extStops[audioExtractorRef] < MaxStops
  /\ (audioExtractorRef = 0 \/ RawTranscript = <<>>)
       => extracted = ExtractorResultSeq[1]
  /\ RawTranscript = <<>> => tracked = TrackerAnswerSeq[1]
  /\ RawTranscript = <<>> => elapsed = ClockDurationSeq[1]
  /\ isAnalyzing' = FALSE
  /\ isAnalyzingRef' = FALSE
  /\ rec' = RecAbort(recognitionRef)
  /\ recognitionRef' = 0
  /\ extStops' = IF audioExtractorRef # 0
                 THEN [extStops EXCEPT ![audioExtractorRef] = @ + 1]
                 ELSE extStops
  /\ LET audio == IF audioExtractorRef # 0 THEN extracted ELSE CreateEmptyResult
         raw == RawTranscript
         words == WordConfidenceEntries(raw, tracked)
         analysis == StopAnalysisOf(audio, words, elapsed)
     IN last' = [Idle EXCEPT
                   !.op = "stop", !.ret = StopReturn(raw), !.raw = raw,
                   !.result =
                     IF StopReturn(raw) = "null" THEN <<>>
                     ELSE <<[rawTranscript |-> raw,
                             cleanedTranscript |-> analysis.cleanedTranscript,
                             wordConfidences |-> analysis.wordConfidences,
                             fluencyMetrics |-> analysis.fluencyMetrics,
                             prosodyMetrics |-> analysis.prosodyMetrics,
                             audioAnalysis |-> analysis.audioAnalysis,
                             durationMs |-> analysis.durationMs,
                             overallClarityScore |->
                               analysis.overallClarityScore]>>]
  /\ stoppedUpTo' = nSessions
  /\ detached' = Detach(recognitionRef)
  /\ UNCHANGED <<interimTranscript, error, isSupported, audioExtractorRef,
                 wordTrackerRef, finalTranscriptRef, nSessions, ext,
                 abortedSinceStart, finalChunks, lastInterim>>
  /\ UNCHANGED renderedInterimTranscript
  /\ UNCHANGED analysisVars

\* ------------------------------------------------------------------ render
\* the re-render after setInterimTranscript changed the state: the component
\* gets the stop callback that reads the new interimTranscript.  stop() reads
\* that text through trim() alone, and the variable keeps it trimmed: a render
\* that changes only the surrounding whitespace gives a callback that behaves
\* as the one before
Render ==
  /\ renderedInterimTranscript # Trim(interimTranscript)
  /\ renderedInterimTranscript' = Trim(interimTranscript)
  /\ last' = [Idle EXCEPT !.op = "render"]
  /\ UNCHANGED <<isAnalyzing, interimTranscript, error, isSupported,
                 audioExtractorRef, wordTrackerRef, recognitionRef,
                 finalTranscriptRef, isAnalyzingRef, nSessions, ext, extStops,
                 rec, abortedSinceStart, stoppedUpTo, detached, finalChunks,
                 lastInterim>>
  /\ UNCHANGED analysisVars

\* ------------------------------------------------------------------ abort()
\* variant of Abort that leaves the Frame Extractor running and referenced
AbortKeepingExtractor ==
  /\ isAnalyzing' = FALSE
  /\ isAnalyzingRef' = FALSE
  /\ rec' = RecAbort(recognitionRef)
  /\ recognitionRef' = 0
  /\ wordTrackerRef' = 0
  /\ interimTranscript' = <<>>
  /\ last' = [Idle EXCEPT !.op = "abort"]
  /\ abortedSinceStart' = TRUE
  /\ stoppedUpTo' = nSessions
  /\ detached' = Detach(recognitionRef)
  /\ lastInterim' = <<>>
  /\ UNCHANGED <<error, isSupported, finalTranscriptRef, nSessions, ext,
                 finalChunks, extStops, audioExtractorRef>>
  /\ UNCHANGED renderedInterimTranscript
  /\ UNCHANGED analysisVars

Abort ==
  /\ audioExtractorRef # 0 => extStops[audioExtractorRef] < MaxStops
  /\ isAnalyzing' = FALSE
  /\ isAnalyzingRef' = FALSE
  /\ rec' = RecAbort(recognitionRef)
  /\ recognitionRef' = 0
  /\ extStops' = IF audioExtractorRef # 0
                 THEN [extStops EXCEPT ![audioExtractorRef] = @ + 1]
                 ELSE extStops
  /\ audioExtractorRef' = 0
  /\ wordTrackerRef' = 0
  /\ interimTranscript' = <<>>
  /\ last' = [Idle EXCEPT !.op = "abort"]
  /\ abortedSinceStart' = TRUE
  /\ stoppedUpTo' = nSessions
  /\ detached' = Detach(recognitionRef)
  /\ lastInterim' = <<>>
  /\ UNCHANGED <<error, isSupported, finalTranscriptRef, nSessions, ext,
                 finalChunks>>
  /\ UNCHANGED renderedInterimTranscript
  /\ UNCHANGED analysisVars

Next ==
  \/ StartUnsupported
  \/ StartBegin
  \/ \E s \in Sessions, throws \in BOOLEAN : StartResume(s, throws)
  \/ \E s \in Sessions : StartReject(s)
  \/ \E s \in Sessions, e \in HookEvents :
        /\ Len(finalTranscriptRef) + Len(FinalText(e.items)) <= MaxBufLen
        /\ OnResult(s, e.resultIndex, e.items)
  \/ \E s \in Sessions, code \in ErrorCodes : OnError(s, code)
  \/ \E s \in Sessions, throws \in BOOLEAN : OnEnd(s, throws)
  \/ \E a \in DOMAIN ExtractorResultSeq, t \in DOMAIN TrackerAnswerSeq,
        d \in DOMAIN ClockDurationSeq :
        Stop(ExtractorResultSeq[a], TrackerAnswerSeq[t], ClockDurationSeq[d])
  \/ Abort
  \/ Render

Spec == Init /\ [][Next]_vars

\* ------------------------------------------------------------------ result events
\* the runs of result events: sessions are started and aborted, and their
\* recognition instances deliver events whose chunks are empty, a or b, while
\* the buffer holds up to MaxTranscriptLen characters
TranscriptNext ==
  \/ StartBegin
  \/ \E s \in Sessions, throws \in BOOLEAN : StartResume(s, throws)
  \/ \E s \in Sessions, e \in ChunkEvents :
        /\ Len(finalTranscriptRef) + Len(FinalText(e.items)) <= MaxTranscriptLen
        /\ OnResult(s, e.resultIndex, e.items)
  \/ Abort

TranscriptSpec == Init /\ [][TranscriptNext]_vars

\* ------------------------------------------------------------------ stop(): analysis
\* stop(): prosodyMetrics = analyzeProsody(audioAnalysis)
StopAnalyzeProsody ==
  /\ prosody = <<>>
  /\ prosody' = <<AnalyzeProsody(audioAnalysis)>>
  /\ UNCHANGED <<audioAnalysis, fluency, rawTranscript, 
                 wordsObtained, wordConfidences, durationMs, summary, assessment>>
  /\ UNCHANGED hookVars

\* stop(): wordConfidences = wordTrackerRef.current?.getWordConfidences(
\* rawTranscript) || WordConfidenceTracker.createEmptyConfidences(rawTranscript),
\* with what the method called answers; stop() has returned null if the
\* transcript is empty
StopWordConfidences(answer) ==
  /\ prosody # <<>>
  /\ rawTranscript # <<>>
  /\ ~wordsObtained
  /\ wordsObtained' = TRUE
  /\ wordConfidences' = WordConfidenceEntries(rawTranscript, answer)
  /\ UNCHANGED <<audioAnalysis, prosody, fluency, rawTranscript, 
                 durationMs, summary, assessment>>
  /\ UNCHANGED hookVars

\* stop(): fluencyMetrics = calculateFluency(wordConfidences, audioAnalysis,
\* prosodyMetrics, durationMs)
StopCalculateFluency ==
  /\ prosody # <<>>
  /\ rawTranscript # <<>>
  /\ wordsObtained
  /\ fluency = <<>>
  /\ fluency' = <<CalculateFluency(wordConfidences, audioAnalysis, prosody[1],
                                   durationMs)>>
  /\ UNCHANGED <<audioAnalysis, prosody, rawTranscript, 
                 wordsObtained, wordConfidences, durationMs, summary, assessment>>
  /\ UNCHANGED hookVars

\* the pitch aggregates drawn: pitchRange and averagePitch, in Hz
PitchAggregates ==
  {[pitchRange |-> [min |-> lo, max |-> hi], averagePitch |-> avg] :
     <<lo, hi, avg>> \in {<<100, 100, 100>>, <<100, 150, 120>>, <<100, 300, 200>>,
                          <<100, 300, 150>>}}

\* the total durations drawn for a frame sequence, in ms: none, the time from
\* the first to the last frame, and one sampling period per frame
TotalDurations(frames) ==
  {0, Len(frames) * FramePeriod}
    \cup (IF Len(frames) > 0 THEN {frames[Len(frames)].timestamp} ELSE {})

\* what is drawn for frame i of a window whose pitches matter: the first and the
\* last frame of an intonation window at any of the pitches, the others at one
WindowChoices(pitches, i) ==
  IF i % WindowSize \in {0, 1} THEN FrameChoices({FramePeriod}, pitches)
  ELSE FrameChoices({FramePeriod}, {100})

\* the choices of n frames, frame by frame
WindowFrames(pitches, n) ==
  {choices \in [1..n -> FrameChoices({FramePeriod}, pitches)] :
     \A i \in 1..n : choices[i] \in WindowChoices(pitches, i)}

\* the results analysed: up to MaxVariedFrames frames with any gaps at one
\* pitch, or with any energies; up to MaxFrames frames at the fixed sampling
\* period with pitches far apart or close, with any total duration, or with
\* any pitch aggregates.  The transcript is one word
AnalysisInit ==
  /\ HookInit
  /\ \/ \E n \in 0..MaxVariedFrames :
          \/ \E choices \in [1..n -> FrameChoices(Gaps, {100})] :
               audioAnalysis = AudioResult(Frames(choices))
          \/ \E choices \in [1..n -> EnergyChoices] :
               audioAnalysis = AudioResult(Frames(choices))
     \/ \E n \in 0..MaxFrames :
          \/ \E choices \in WindowFrames(Pitches, n) :
               audioAnalysis = AudioResult(Frames(choices))
          \/ \E choices \in WindowFrames(NearPitches, n) :
               audioAnalysis = AudioResult(Frames(choices))
          \/ \E choices \in [1..n -> FrameChoices({FramePeriod}, {100})] :
               \E total \in TotalDurations(Frames(choices)) :
                 audioAnalysis = [AudioResult(Frames(choices))
                                    EXCEPT !.totalDuration = total]
          \/ \E choices \in [1..n -> FrameChoices({FramePeriod}, {100})] :
               \E pitch \in PitchAggregates :
                 audioAnalysis = [AudioResult(Frames(choices))
                                    EXCEPT !.pitchRange = pitch.pitchRange,
                                           !.averagePitch = pitch.averagePitch]
  /\ prosody = <<>>
  /\ fluency = <<>>
  /\ rawTranscript = <<"a">>
  /\ wordsObtained = FALSE
  /\ wordConfidences = <<>>
  /\ durationMs = 1600
  /\ summary = <<>>
  /\ assessment = <<>>

AnalysisNext ==
  \/ StopAnalyzeProsody
  \/ \E t \in DOMAIN TrackerAnswerSeq : StopWordConfidences(TrackerAnswerSeq[t])
  \/ StopCalculateFluency

AnalysisSpec == AnalysisInit /\ [][AnalysisNext]_vars

\* stop(): cleanedTranscript and overallClarityScore of the returned result
StopSummarise ==
  /\ fluency # <<>>
  /\ summary = <<>>
  /\ summary' = <<[cleanedTranscript |-> CleanedTranscript(wordConfidences),
                   overallClarityScore |->
                     OverallClarityScore(wordConfidences, fluency[1], prosody[1])]>>
  /\ UNCHANGED <<audioAnalysis, prosody, fluency, rawTranscript, 
                 wordsObtained, wordConfidences, durationMs, assessment>>
  /\ UNCHANGED hookVars

\* getFluencyAssessment applied to the metrics of a result that stop() returned
AssessFluency ==
  /\ summary # <<>>
  /\ assessment = <<>>
  /\ assessment' = <<GetFluencyAssessment(fluency[1])>>
  /\ UNCHANGED <<audioAnalysis, prosody, fluency, rawTranscript, 
                 wordsObtained, wordConfidences, durationMs, summary>>
  /\ UNCHANGED hookVars

\* the word entries drawn: plain words of full and of middling confidence and
\* fillers
PlainKinds ==
  {Word(<<"a">>, 100, FALSE, FALSE), Word(<<"b">>, 45, FALSE, FALSE),
   Word(<<"u", "m">>, 60, TRUE, FALSE)}

\* the word entries drawn for fewer than MaxWords words: repeats as well
WordKinds ==
  PlainKinds \cup {Word(<<"a">>, 0, FALSE, TRUE), Word(<<"u", "m">>, 60, TRUE, TRUE)}

\* the durations drawn, in ms
Durations == {0 - 1000, 0, 625, 1500, 1600, 1700, 40000}

\* the silence ratios drawn
SilenceRatios == {FZero, Dec(7, 10), FromInt(1)}

\* the prosody metrics drawn: pauseCount, longPauseCount, pitchVariation,
\* rhythmConsistency
ProsodyInput(pauseCount, longPauseCount, pitchVariation, rhythmConsistency) ==
  [CreateEmptyProsodyMetrics EXCEPT !.pauseCount = pauseCount,
                                    !.longPauseCount = longPauseCount,
                                    !.pitchVariation = pitchVariation,
                                    !.rhythmConsistency = rhythmConsistency]

ProsodyInputs ==
  {ProsodyInput(0, 0, Hundred, Hundred),
   ProsodyInput(0, 0, FZero, FromInt(50)),
   ProsodyInput(3, 1, FMul(Dec(2, 3), Hundred), FromInt(50)),
   ProsodyInput(3, 3, FMul(Dec(2, 3), Hundred), Hundred),
   ProsodyInput(5, 5, FZero, FZero),
   ProsodyInput(20, 20, Hundred, FromInt(50)),
   ProsodyInput(12, 2, FromInt(6), FromInt(50))}

\* the durations, silence ratios and prosody metrics drawn together: every
\* duration with no silence and the first prosody metrics, and two durations
\* with every silence ratio and all prosody metrics
FluencyInputs ==
  [durationMs : Durations, silenceRatio : {FZero},
   prosody : {ProsodyInput(0, 0, Hundred, Hundred)}]
  \cup [durationMs : {625, 1500}, silenceRatio : SilenceRatios,
        prosody : ProsodyInputs]

\* the transcripts drawn for the rest of stop(): trimmed, not empty
RawTexts ==
  {t \in UNION {[1..n -> {"a", "b", SP}] : n \in 1..MaxRawLen} : Trim(t) = t}

\* the inputs of calculateFluency and of the rest of stop(): up to MaxWords
\* word entries obtained for the transcript, with a duration, a silence ratio
\* and prosody metrics; or a transcript whose entries are still to be obtained,
\* with two of these
ScoreInit ==
  /\ HookInit
  /\ \E given \in FluencyInputs :
       /\ durationMs = given.durationMs
       /\ audioAnalysis = [AudioResult(<<>>) EXCEPT !.silenceRatio = given.silenceRatio]
       /\ prosody = <<given.prosody>>
       /\ \/ /\ wordsObtained = TRUE
             /\ \E n \in 1..MaxWords :
                  \E words \in [1..n -> IF n < MaxWords THEN WordKinds
                                          ELSE PlainKinds] :
                    wordConfidences = words /\ rawTranscript = JoinWords(words)
          \/ /\ rawTranscript \in RawTexts
             /\ wordsObtained = FALSE
             /\ wordConfidences = <<>>
             /\ given.durationMs = 625
             /\ given.silenceRatio = FZero
             /\ given.prosody \in {ProsodyInput(0, 0, Hundred, Hundred),
                                 ProsodyInput(12, 2, FromInt(6), FromInt(50))}
  /\ fluency = <<>>
  /\ summary = <<>>
  /\ assessment = <<>>

ScoreNext ==
  \/ \E t \in DOMAIN TrackerAnswerSeq : StopWordConfidences(TrackerAnswerSeq[t])
  \/ StopCalculateFluency
  \/ StopSummarise
  \/ AssessFluency

ScoreSpec == ScoreInit /\ [][ScoreNext]_vars


\* ------------------------------------------------------------------ claims
\* C1: after abort(), every stop() before the next session start returns null,
\* also when final text had been accumulated before the abort.
C1_NoResultAfterAbort ==
  (last.op = "stop" /\ abortedSinceStart) => last.ret = "null"

\* C2: stop() returns null whenever the transcript is empty after trimming, no
\* final text and no interim text being held, and leaves the session not
\* Capturing and the recognition no longer referenced.
C2_EmptyTranscriptStop ==
  (last.op = "stop" /\ Trim(finalTranscriptRef) = <<>>
     /\ Trim(interimTranscript) = <<>>)
    => /\ last.ret = "null"
       /\ ~isAnalyzing /\ ~isAnalyzingRef
       /\ recognitionRef = 0

\* C3: every Frame Extractor that start() created and started has stop() invoked
\* exactly once: never twice, and never left unreleased once the orchestrator no
\* longer references it.
C3_ReleasedExactlyOnce ==
  \A s \in 1..nSessions :
    ext[s] # "rejected"
    => /\ extStops[s] <= 1
       /\ audioExtractorRef # s => extStops[s] = 1

\* C4: once stop() or abort() has been called on a session, onend never calls
\* start() on that session's recognition instance again: the onend that follows
\* the abort() of stop()/abort() restarts nothing, whenever it is delivered.
C4_NoRestartAfterStop ==
  [][(last'.op = "onend" /\ detached[last'.sess]) => ~last'.started]_vars

\* C5: while the session is Capturing, an onend of its recognition instance is
\* answered by one start() call on that instance, whether or not that call
\* throws; nothing is reported (error state, onError) and the session stays
\* Capturing with its references unchanged.
C5_OnEndRestarts ==
  [][(last'.op = "onend" /\ isAnalyzingRef
        /\ (last'.sess = nSessions \/ last'.sess = recognitionRef))
     => /\ last'.started
        /\ rec'[last'.sess] \in {"running", "idle"}
        /\ last'.onError = 0
        /\ error' = error
        /\ isAnalyzingRef' /\ isAnalyzing' = isAnalyzing
        /\ recognitionRef' = recognitionRef]_vars

\* C5 witness: the restart call threw and was swallowed; the session is still
\* Capturing with the instance attached.
C5_Witness ==
  /\ last.op = "onend" /\ last.started
  /\ last.sess = nSessions /\ recognitionRef = last.sess
  /\ rec[last.sess] = "idle"
  /\ isAnalyzingRef /\ isAnalyzing
  /\ error = NoError

\* C6: a start() that resumes after stop() or abort() was issued during its
\* suspension does not make the session live: no recognition is started or
\* attached, no word tracker is held, and the extractor is not left claimed.
C6_CancelledStartStaysDead ==
  (last.op = "start_resumed" /\ last.sess <= stoppedUpTo)
  => /\ ~last.started
     /\ rec[last.sess] # "running"
     /\ recognitionRef = 0
     /\ wordTrackerRef = 0
     /\ extStops[last.sess] >= 1

\* C7: at most one recognition instance is running, and at most one started
\* Frame Extractor is unreleased, in every reachable state.
C7_SingleLiveSession ==
  /\ Cardinality({s \in Sessions : rec[s] = "running"}) <= 1
  /\ Cardinality({s \in Sessions : ext[s] = "active" /\ extStops[s] = 0}) <= 1

\* C8: the transcript holds text of the current session only: a result event that
\* a previous session's instance delivers after stop() or abort() detached it is
\* neither appended to the buffer nor surfaced to the live-UI callback.
C8_OnlyCurrentSessionText ==
  [][(last'.op = "onresult" /\ detached[last'.sess])
     => (finalTranscriptRef' = finalTranscriptRef /\ ~last'.ui)]_vars

\* C9: start() without a recognition capability returns false, sets the
\* unsupported error and isSupported = false, and changes nothing else: not the
\* Capturing flag, the references, the platform objects or the transcripts.
C9_UnsupportedStartFailsFast ==
  [][(last'.op = "start" /\ ~last'.supported)
     => /\ last'.ret = "false"
        /\ isSupported' = FALSE
        /\ error' = Unsupported
        /\ UNCHANGED <<isAnalyzing, isAnalyzingRef, audioExtractorRef,
                       wordTrackerRef, recognitionRef, finalTranscriptRef,
                       interimTranscript, nSessions, ext, extStops, rec>>]_vars

\* C9 witness: an unsupported start() was issued after a stopped session whose
\* final text is still in the buffer.
C9_Witness ==
  /\ last.op = "start" /\ ~last.supported /\ last.ret = "false"
  /\ ~isSupported /\ error = Unsupported
  /\ finalTranscriptRef # <<>> /\ interimTranscript # <<>>
  /\ ~isAnalyzing /\ nSessions = 1

\* C10: when the extractor's start() rejects, the session is not Capturing
\* afterwards and holds no extractor reference, word tracker or recognition
\* instance of the failed session.
C10_CaptureFailureLeavesNothing ==
  last.op = "start_rejected"
  => /\ ~isAnalyzing
     /\ audioExtractorRef # last.sess
     /\ wordTrackerRef # last.sess
     /\ rec[last.sess] = "none"

\* C11: a recognition error with code no-speech or aborted changes neither the
\* error state nor calls onError; any other code sets the error state and calls
\* onError exactly once; either way the Capturing flags, the attached recognition
\* instance, the instances' run states and the transcript buffer are unchanged.
C11_ErrorHandling ==
  [][last'.op = "onerror"
     => /\ last'.code \in {"no-speech", "aborted"}
             => (error' = error /\ last'.onError = 0)
        /\ last'.code \notin {"no-speech", "aborted"}
             => (error' = last'.code /\ last'.onError = 1)
        /\ UNCHANGED <<isAnalyzing, isAnalyzingRef, recognitionRef, rec,
                       finalTranscriptRef, interimTranscript>>]_vars

\* C11 witness: a network error was surfaced in a Capturing session whose
\* instance is running and whose buffer holds final text.
C11_Witness ==
  /\ last.op = "onerror" /\ last.code = "network"
  /\ error = "network" /\ last.onError = 1
  /\ isAnalyzing /\ isAnalyzingRef
  /\ recognitionRef # 0 /\ rec[recognitionRef] = "running"
  /\ finalTranscriptRef # <<>>

\* C12: after every result event the transcript buffer is the concatenation, in
\* delivery order, of the final chunks delivered since the session start, each
\* followed by one space, and no interim chunk is in it; the Capturing session's
\* attached instance forwards every chunk of the event to the word tracker as one
\* snapshot carrying its flag; and the live-UI callback is called with the buffer
\* followed by the event's interim text.
C12_ResultEvents ==
  [][last'.op = "onresult"
     => LET RECURSIVE Spaced(_)
            Spaced(chunks) ==
              IF chunks = <<>> THEN <<>>
              ELSE Head(chunks) \o <<SP>> \o Spaced(Tail(chunks))
            items == last'.items
            nFinal == Cardinality({i \in DOMAIN items : items[i].isFinal})
        IN
        /\ finalTranscriptRef' = Spaced(finalChunks')
        /\ Len(finalChunks') = Len(finalChunks) + nFinal
        /\ SubSeq(finalChunks', 1, Len(finalChunks)) = finalChunks
        /\ (isAnalyzingRef /\ recognitionRef = last'.sess)
             => /\ Len(last'.snaps) = Len(items)
                /\ \A i \in DOMAIN items :
                     /\ last'.snaps[i].text = items[i].text
                     /\ last'.snaps[i].isFinal = items[i].isFinal
        /\ last'.ui
        /\ interimTranscript' = finalTranscriptRef' \o lastInterim']_vars

\* C12 witness: the attached instance of a Capturing session delivered the
\* final chunk b and the interim chunk a in one event, after an event with the
\* final chunk a: the buffer holds a before b.
C12_Witness ==
  /\ last.op = "onresult" /\ isAnalyzingRef /\ recognitionRef = last.sess
  /\ last.items = <<[isFinal |-> TRUE, text |-> <<"b">>],
                    [isFinal |-> FALSE, text |-> <<"a">>]>>
  /\ Len(last.snaps) = 2
  /\ finalChunks = <<<<"a">>, <<"b">>>>
  /\ finalTranscriptRef = <<"a", SP, "b", SP>>
  /\ interimTranscript = <<"a", SP, "b", SP, "a">>
  /\ last.ui

\* C13: the raw transcript stop() computes is the trimmed accumulated final text
\* when that is non-empty, and otherwise the trimmed interim text of the last
\* result event; interim text delivered after final text is not part of it.
C13_RawTranscript ==
  last.op = "stop"
  => last.raw = IF Trim(finalTranscriptRef) # <<>> THEN Trim(finalTranscriptRef)
                ELSE Trim(lastInterim)

\* C14: between one start() and the next at most one stop() returns a result: a
\* stop() that directly follows a stop() that returned a SpeechAnalysisResult
\* returns null.
C14_OneResultPerSession ==
  [][(last.op = "stop" /\ last.ret = "result" /\ last'.op = "stop")
     => last'.ret = "null"]_vars

\* C15: result items are applied in increasing result-index order: when an event
\* of an instance committed a final item at some result index, the next event
\* of that instance, if it starts at or below that index, is rejected or has
\* only its items above that index applied, so that no item is appended again.
C15_IncreasingResultIndex ==
  [][(/\ last.op = "onresult" /\ last'.op = "onresult"
      /\ last'.sess = last.sess
      /\ \E i \in DOMAIN last.items :
            last.items[i].isFinal /\ last'.idx <= last.idx + i - 1)
     => LET committed ==
              {last.idx + i - 1 : i \in {j \in DOMAIN last.items : last.items[j].isFinal}}
            fresh ==
              {i \in DOMAIN last'.items :
                 /\ last'.items[i].isFinal
                 /\ \A c \in committed : last'.idx + i - 1 > c}
            added == Len(finalChunks') - Len(finalChunks)
        IN added = 0 \/ added = Cardinality(fresh)]_vars

\* C16: for every frame sequence analyzeProsody returns counts with
\* 0 <= longPauseCount <= pauseCount, and calculateFluency returns both counts
\* as analyzeProsody gave them.
C16_PauseCounts ==
  /\ prosody # <<>>
       => /\ prosody[1].longPauseCount >= 0
          /\ prosody[1].longPauseCount <= prosody[1].pauseCount
  /\ fluency # <<>>
       => /\ fluency[1].pauseCount = prosody[1].pauseCount
          /\ fluency[1].longPauseCount = prosody[1].longPauseCount

\* C16 witness: a result with two pauses, one of them long, went through
\* analyzeProsody and calculateFluency.
C16_Witness ==
  /\ fluency # <<>>
  /\ prosody[1].pauseCount = 2 /\ prosody[1].longPauseCount = 1
  /\ fluency[1].pauseCount = 2 /\ fluency[1].longPauseCount = 1

\* C17: when the last frame is not silent, pauseCount is the number of maximal
\* silent runs whose duration (timestamp of the first non-silent frame after the
\* run minus timestamp of the run's first frame) is at least 500 ms, and
\* longPauseCount the number of those of at least 1500 ms.
C17_InteriorPauses ==
  (prosody # <<>> /\ audioAnalysis.frames # <<>>
     /\ ~audioAnalysis.frames[Len(audioAnalysis.frames)].isSilent)
  => LET frames == audioAnalysis.frames
         starts == {a \in DOMAIN frames :
                      frames[a].isSilent /\ (a = 1 \/ ~frames[a - 1].isSilent)}
         after(a) == CHOOSE b \in DOMAIN frames :
                       /\ b > a /\ ~frames[b].isSilent
                       /\ \A k \in a..(b - 1) : frames[k].isSilent
         duration(a) == frames[after(a)].timestamp - frames[a].timestamp
     IN /\ prosody[1].pauseCount =
             Cardinality({a \in starts : duration(a) >= 500})
        /\ prosody[1].longPauseCount =
             Cardinality({a \in starts : duration(a) >= 1500})

\* C17 witness: one silent run of 1600 ms among non-silent frames was counted
\* as one pause and one long pause.
C17_Witness ==
  /\ prosody # <<>>
  /\ audioAnalysis.frames =
       <<Voiced(0, 100), Silent(100), Silent(1500), Silent(1600), Voiced(1700, 100)>>
  /\ prosody[1].pauseCount = 1 /\ prosody[1].longPauseCount = 1

\* C18: at the fixed 100 ms frame period a trailing run of k silent frames,
\* the only silent run of the sequence, counts as a pause iff k * 100 >= 500 and
\* as a long pause iff k * 100 >= 1500, as a run of k silent frames followed by
\* a non-silent frame does.
C18_TrailingPause ==
  LET frames == audioAnalysis.frames
      n == Len(frames)
      k == Cardinality({i \in DOMAIN frames : frames[i].isSilent})
  IN (/\ prosody # <<>> /\ k >= 1
      /\ \A i \in DOMAIN frames :
           /\ frames[i].timestamp = (i - 1) * 100
           /\ frames[i].isSilent <=> i > n - k)
     => /\ prosody[1].pauseCount = (IF k * 100 >= 500 THEN 1 ELSE 0)
        /\ prosody[1].longPauseCount = (IF k * 100 >= 1500 THEN 1 ELSE 0)

\* C19: analyzeProsody of the extractor's empty result returns the neutral
\* defaults: pitchVariation 0, stressEventCount 0, averagePauseDuration 0,
\* pauseCount 0, longPauseCount 0, no intonation patterns, rhythmConsistency 50,
\* speakingRate normal.
C19_EmptyDefaults ==
  (prosody # <<>> /\ audioAnalysis = CreateEmptyResult)
  => /\ DOMAIN prosody[1] =
          {"pitchVariation", "stressEventCount", "averagePauseDuration",
           "pauseCount", "longPauseCount", "intonationPatterns",
           "rhythmConsistency", "speakingRate"}
     /\ prosody[1].pitchVariation = FZero
     /\ prosody[1].stressEventCount = 0
     /\ prosody[1].averagePauseDuration = FZero
     /\ prosody[1].pauseCount = 0
     /\ prosody[1].longPauseCount = 0
     /\ prosody[1].intonationPatterns = <<>>
     /\ prosody[1].rhythmConsistency = FromInt(50)
     /\ prosody[1].speakingRate = "normal"

\* C19 witness: the empty result was analysed.
C19_Witness ==
  /\ prosody # <<>>
  /\ audioAnalysis = CreateEmptyResult
  /\ audioAnalysis.frames = <<>>
  /\ prosody[1].rhythmConsistency = FromInt(50)

\* C20: every intonation event analyzeProsody returns has a magnitude in the
\* closed range [0, 100].
C20_MagnitudeRange ==
  prosody # <<>>
  => \A i \in DOMAIN prosody[1].intonationPatterns :
       LET m == prosody[1].intonationPatterns[i].magnitude
       IN FLe(FZero, m) /\ FLe(m, Hundred)

\* C25: calculateFluency returns wordsPerMinute = round(wordCount /
\* (durationMs / 60000)) when durationMs > 0, the whole number nearest to
\* wordCount * 60000 / durationMs with a half rounded up, and 0 when durationMs
\* is not positive; 30 words over 15000 ms give 120.
C25_WordsPerMinute ==
  /\ fluency # <<>> =>
       LET n == Len(wordConfidences)
           w == fluency[1].wordsPerMinute
       IN IF durationMs > 0
          THEN w = (2 * n * 60000 + durationMs) \div (2 * durationMs)
          ELSE w = 0
  /\ WordsPerMinute(30, 15000) = 120

\* C26: calculateFluency returns hesitationScore = clamp(100 - 5 pauseCount
\* - 3 fillerCount - 4 repetitionCount - 8 longPauseCount, 0, 100), with
\* fillerCount and repetitionCount the numbers of words flagged isFiller and
\* isRepeat, and fillerRatio = fillerCount / wordCount (0 for no words), which
\* lies in [0, 1].
C26_HesitationScore ==
  fluency # <<>> =>
    LET f == fluency[1]
        n == Len(wordConfidences)
        fillers == Cardinality({i \in 1..n : wordConfidences[i].isFiller})
        repeats == Cardinality({i \in 1..n : wordConfidences[i].isRepeat})
        raw == 100 - 5 * f.pauseCount - 3 * fillers - 4 * repeats
                   - 8 * f.longPauseCount
    IN /\ f.fillerCount = fillers
       /\ f.repetitionCount = repeats
       /\ f.hesitationScore = IF raw < 0 THEN 0 ELSE IF raw > 100 THEN 100 ELSE raw
       /\ f.fillerRatio = IF n = 0 THEN FZero
                          ELSE FDiv(FromInt(fillers), FromInt(n))
       /\ FLe(FZero, f.fillerRatio) /\ FLe(f.fillerRatio, FromInt(1))
       /\ CalculateFluency(<<>>, audioAnalysis, prosody[1], durationMs).fillerRatio
            = FZero

\* C26 witness: two fillers and no repeat among three words, three pauses of
\* which one is long: hesitationScore 100 - 15 - 6 - 8 = 71, fillerRatio 2/3.
C26_Witness ==
  /\ fluency # <<>>
  /\ fluency[1].fillerCount = 2
  /\ fluency[1].repetitionCount = 0
  /\ fluency[1].pauseCount = 3
  /\ fluency[1].longPauseCount = 1
  /\ fluency[1].hesitationScore = 71
  /\ fluency[1].fillerRatio = Dec(2, 3)

\* C22: overallFluencyScore starts at 100, loses (100 - WPM) * 0.3 if WPM < 100
\* or else (WPM - 200) * 0.2 if WPM > 200, loses fillerRatio * 30, loses
\* longPauseCount * 5, loses (0.4 - speechToSilenceRatio) * 50 if
\* speechToSilenceRatio = 1 - silenceRatio is below 0.4, is averaged with
\* hesitationScore and clamped, so it lies in [0, 100].  The steps are taken in
\* this order, in the code's numbers.
C22_OverallFluencyScore ==
  fluency # <<>> =>
    LET f == fluency[1]
        ratio == f.speechToSilenceRatio
        start == Hundred
        pace == IF f.wordsPerMinute < 100
                THEN FMul(FromInt(100 - f.wordsPerMinute), Literal_0_3)
                ELSE IF f.wordsPerMinute > 200
                THEN FMul(FromInt(f.wordsPerMinute - 200), Literal_0_2)
                ELSE FZero
        afterPace == FSub(start, pace)
        afterFillers == FSub(afterPace, FMul(f.fillerRatio, FromInt(30)))
        afterPauses == FSub(afterFillers, FromInt(f.longPauseCount * 5))
        afterSilence == IF FLt(ratio, Literal_0_4)
                        THEN FSub(afterPauses,
                                  FMul(FSub(Literal_0_4, ratio), FromInt(50)))
                        ELSE afterPauses
        mean == FDiv(FAdd(afterSilence, FromInt(f.hesitationScore)), FromInt(2))
        clamped == IF FLt(mean, FZero) THEN FZero
                   ELSE IF FLt(Hundred, mean) THEN Hundred
                   ELSE mean
    IN /\ ratio = FSub(FromInt(1), audioAnalysis.silenceRatio)
       /\ f.overallFluencyScore = clamped
       /\ FLe(FZero, f.overallFluencyScore)
       /\ FLe(f.overallFluencyScore, Hundred)

\* C22 witness: one filler word at 96 words per minute, one long pause among
\* three, silence ratio 0.7: (100 - 1.2 - 30 - 5 - 5 + 74) / 2, which is 66.4 to
\* one decimal place.
C22_Witness ==
  /\ fluency # <<>>
  /\ fluency[1].wordsPerMinute = 96
  /\ fluency[1].fillerRatio = FromInt(1)
  /\ fluency[1].longPauseCount = 1
  /\ FLt(fluency[1].speechToSilenceRatio, Literal_0_4)
  /\ fluency[1].hesitationScore = 74
  /\ MathRound(FMul(fluency[1].overallFluencyScore, FromInt(10))) = 664

\* C21 as stated: of two inputs to calculateFluency that differ only in that
\* the second flags more of the same words as fillers, the second has the
\* strictly smaller overallFluencyScore.  The two are compared in the state
\* that calculateFluency leaves.
C21_StrictlyDecreasing ==
  (fluency # <<>> /\ summary = <<>> /\ assessment = <<>>) =>
    LET plain == {i \in DOMAIN wordConfidences : ~wordConfidences[i].isFiller}
    IN \A more \in SUBSET plain \ {{}} :
         LET second == [i \in DOMAIN wordConfidences |->
                          IF i \in more
                          THEN [wordConfidences[i] EXCEPT !.isFiller = TRUE]
                          ELSE wordConfidences[i]]
             other == CalculateFluency(second, audioAnalysis, prosody[1], durationMs)
         IN /\ FLt(fluency[1].fillerRatio, other.fillerRatio)
            /\ FLt(other.overallFluencyScore, fluency[1].overallFluencyScore)

\* C21: of two inputs to calculateFluency that differ only in that the second
\* flags more of the same words as fillers, the second has the larger
\* fillerRatio and an overallFluencyScore that is not larger, and that is
\* strictly smaller whenever the first's score is above 0.  The two are
\* compared in the state that calculateFluency leaves.
C21_Decreasing ==
  (fluency # <<>> /\ summary = <<>> /\ assessment = <<>>) =>
    LET plain == {i \in DOMAIN wordConfidences : ~wordConfidences[i].isFiller}
    IN \A more \in SUBSET plain \ {{}} :
         LET second == [i \in DOMAIN wordConfidences |->
                          IF i \in more
                          THEN [wordConfidences[i] EXCEPT !.isFiller = TRUE]
                          ELSE wordConfidences[i]]
             other == CalculateFluency(second, audioAnalysis, prosody[1], durationMs)
         IN /\ FLt(fluency[1].fillerRatio, other.fillerRatio)
            /\ FLe(other.overallFluencyScore, fluency[1].overallFluencyScore)
            /\ FLt(FZero, fluency[1].overallFluencyScore)
                 => FLt(other.overallFluencyScore, fluency[1].overallFluencyScore)

\* C21 witness: a score above 0 was computed for three words, one of them a
\* filler and another one not, so that an input with a larger fillerRatio
\* exists.
C21_Witness ==
  /\ fluency # <<>>
  /\ Len(wordConfidences) = 3
  /\ fluency[1].fillerCount = 1
  /\ FLt(FZero, fluency[1].overallFluencyScore)
  /\ FLt(fluency[1].overallFluencyScore, Hundred)

\* C27: getFluencyAssessment gives every overallFluencyScore exactly one
\* level: excellent iff score >= 80, good iff 60 <= score < 80, fair iff
\* 40 <= score < 60, needs_improvement iff score < 40; metrics with the same
\* score get the same level whatever their other fields are.
C27_Levels ==
  assessment # <<>> =>
    LET score == fluency[1].overallFluencyScore
        level == assessment[1].level
        AtLeast(k) == FCmp(score, FromInt(k)) >= 0
    IN /\ level \in {"excellent", "good", "fair", "needs_improvement"}
       /\ level = "excellent" <=> AtLeast(80)
       /\ level = "good" <=> AtLeast(60) /\ ~AtLeast(80)
       /\ level = "fair" <=> AtLeast(40) /\ ~AtLeast(60)
       /\ level = "needs_improvement" <=> ~AtLeast(40)
       /\ \A w \in {0, 105, 195} : \A r \in {FZero, FromInt(1)} : \A l \in {0, 5} :
            GetFluencyAssessment([fluency[1] EXCEPT !.wordsPerMinute = w,
                                                    !.fillerRatio = r,
                                                    !.fillerCount = l,
                                                    !.pauseCount = l,
                                                    !.longPauseCount = l,
                                                    !.hesitationScore = w % 100]).level
              = level

\* C27 witness: a score of exactly 60 was assessed as good.
C27_Witness ==
  /\ assessment # <<>>
  /\ fluency[1].overallFluencyScore = FromInt(60)
  /\ assessment[1].level = "good"

\* C28: for a score in the good or the fair band the summary of
\* getFluencyAssessment lists, in this order, a slow-pace issue iff WPM < 110,
\* a fast-pace issue iff WPM > 190 (in both bands), a filler issue iff
\* fillerRatio > 0.1 (good) or > 0.15 (fair), a long-pause issue iff
\* longPauseCount > 2 (good) or > 4 (fair); with no issue it is the band's
\* default summary.
C28_IssueList ==
  (assessment # <<>> /\ assessment[1].level \in {"good", "fair"}) =>
    LET m == fluency[1]
        s == assessment[1].summary
        good == assessment[1].level = "good"
        At(pieces) == {i \in DOMAIN s : s[i] \in pieces}
        slow == At({"slightly slow pace", "slow pace"})
        fast == At({"slightly fast pace", "fast pace"})
        filler == At({"some filler words", "frequent filler words"})
        long == At({"occasional long pauses", "frequent long pauses"})
        Before(a, b) == \A i \in a : \A j \in b : i < j
    IN /\ slow # {} <=> m.wordsPerMinute < 110
       /\ fast # {} <=> m.wordsPerMinute > 190
       /\ filler # {} <=> IF good THEN FLt(Literal_0_1, m.fillerRatio)
                          ELSE FLt(Literal_0_15, m.fillerRatio)
       /\ long # {} <=> m.longPauseCount > (IF good THEN 2 ELSE 4)
       /\ Before(slow, fast) /\ Before(fast, filler) /\ Before(filler, long)
       /\ Before(slow, filler) /\ Before(slow, long) /\ Before(fast, long)
       /\ (slow \cup fast \cup filler \cup long = {}) =>
            s = IF good THEN <<"Good fluency with room for minor improvements.">>
                ELSE <<"Fair fluency with noticeable hesitation.">>

\* C23: the result of stop() has overallClarityScore = round(0.4 *
\* avgWordConfidence + 0.3 * overallFluencyScore + 0.15 * pitchVariation +
\* 0.15 * rhythmConsistency), avgWordConfidence being the mean confidence of
\* the word entries (0 if there are none), and the score lies in [0, 100] when
\* every word confidence does.  Stated where the four values are whole numbers
\* a, f, p and r: the sum is (8a + 6f + 3p + 3r) / 20, a half rounded up.
C23_ClarityScore ==
  summary # <<>> =>
    LET RECURSIVE Total(_)
        Total(i) == IF i = 0 THEN 0 ELSE wordConfidences[i].confidence + Total(i - 1)
        n == Len(wordConfidences)
        Whole(x) == \E k \in 0..100 : x = FromInt(k)
        ValueOf(x) == CHOOSE k \in 0..100 : x = FromInt(k)
        f == fluency[1].overallFluencyScore
        p == prosody[1].pitchVariation
        r == prosody[1].rhythmConsistency
        score == summary[1].overallClarityScore
    IN /\ ((n > 0 => Total(n) % n = 0) /\ Whole(f) /\ Whole(p) /\ Whole(r))
            => score = (8 * (IF n = 0 THEN 0 ELSE Total(n) \div n) + 6 * ValueOf(f)
                        + 3 * ValueOf(p) + 3 * ValueOf(r) + 10) \div 20
       /\ (\A i \in DOMAIN wordConfidences :
             wordConfidences[i].confidence \in 0..100)
            => score \in 0..100

\* C24: the cleanedTranscript of a result of stop() is exactly the words of
\* wordConfidences whose isFiller and isRepeat flags are both false, in their
\* order, joined by single spaces, with no space at either end; its words are
\* therefore a subsequence of the words of wordConfidences.
C24_CleanedTranscript ==
  summary # <<>> =>
    LET cleaned == summary[1].cleanedTranscript
        kept == {i \in DOMAIN wordConfidences :
                   ~wordConfidences[i].isFiller /\ ~wordConfidences[i].isRepeat}
        \* the text of the kept words from position i on, a space before each
        \* word but the first
        RECURSIVE From(_, _)
        From(i, first) ==
          IF i > Len(wordConfidences) THEN <<>>
          ELSE IF i \in kept
          THEN (IF first THEN <<>> ELSE <<SP>>) \o wordConfidences[i].word
               \o From(i + 1, FALSE)
          ELSE From(i + 1, first)
    IN /\ cleaned = From(1, TRUE)
       /\ cleaned # <<>> => cleaned[1] # SP /\ cleaned[Len(cleaned)] # SP
       /\ \A i \in 1..(Len(cleaned) - 1) : ~(cleaned[i] = SP /\ cleaned[i + 1] = SP)

\* C24 witness: of the entries a, um (filler), b the cleaned transcript is
\* "a b".
C24_Witness ==
  /\ summary # <<>>
  /\ Len(wordConfidences) = 3
  /\ wordConfidences[1] = Word(<<"a">>, 100, FALSE, FALSE)
  /\ wordConfidences[2].isFiller
  /\ wordConfidences[3] = Word(<<"b">>, 45, FALSE, FALSE)
  /\ summary[1].cleanedTranscript = <<"a", SP, "b">>

\* C29: for every non-empty frame sequence analyzeProsody returns
\* pitchVariation = min(100, (pitchMax - pitchMin) / averagePitch * 100) when
\* averagePitch > 0 and 0 otherwise, the quotient and the product being those
\* of the code's numbers; a difference of averagePitch or more gives 100, and
\* the value lies in [0, 100] whenever pitchMax >= pitchMin.
C29_PitchVariation ==
  (prosody # <<>> /\ Len(audioAnalysis.frames) > 0) =>
    LET v == prosody[1].pitchVariation
        diff == audioAnalysis.pitchRange.max - audioAnalysis.pitchRange.min
        avg == audioAnalysis.averagePitch
        scaled == FMul(FDiv(FromInt(diff), FromInt(avg)), Hundred)
    IN /\ IF avg > 0
          THEN /\ v = IF FLt(scaled, Hundred) THEN scaled ELSE Hundred
               /\ diff >= avg => v = Hundred
          ELSE v = FZero
       /\ diff >= 0 => (FLe(FZero, v) /\ FLe(v, Hundred))

\* C29 witness: frames with pitch range 100..300 Hz around an average of 150 Hz
\* were analysed: the quotient is 133.3 and the pitch variation 100.
C29_Witness ==
  /\ prosody # <<>>
  /\ Len(audioAnalysis.frames) > 0
  /\ audioAnalysis.pitchRange = [min |-> 100, max |-> 300]
  /\ audioAnalysis.averagePitch = 150
  /\ prosody[1].pitchVariation = Hundred

\* C31: when abort() returns, whatever state it was called in, the orchestrator
\* references no Frame Extractor, no recognition instance and no word tracker,
\* the extractor it referenced (if any) has had stop() called, the interim
\* transcript is empty and the session is not Capturing.
C31_AbortReleases ==
  [][last'.op = "abort" =>
       /\ audioExtractorRef' = 0
       /\ recognitionRef' = 0
       /\ wordTrackerRef' = 0
       /\ interimTranscript' = <<>>
       /\ ~isAnalyzing' /\ ~isAnalyzingRef'
       /\ audioExtractorRef # 0 =>
            extStops'[audioExtractorRef] = extStops[audioExtractorRef] + 1
       /\ recognitionRef # 0 => rec'[recognitionRef] # "running"]_vars

\* C31 witness: abort() was called on a Capturing session: its recognition
\* instance is ending, its extractor has been stopped once and nothing is
\* referenced any more.
C31_Witness ==
  /\ last.op = "abort"
  /\ nSessions = 1
  /\ rec[1] = "ending"
  /\ ext[1] = "active"
  /\ extStops[1] = 1
  /\ audioExtractorRef = 0 /\ recognitionRef = 0 /\ wordTrackerRef = 0

\* C32: the intonation analysis cuts the frame sequence into consecutive
\* 5-frame windows from frame 0 on, and every complete window with at least 3
\* non-silent frames yields exactly one intonation event, the others none; so
\* n frames, none silent, yield floor(n / 5) events, in increasing timestamp
\* order.
C32_IntonationWindows ==
  (prosody # <<>> /\ Len(audioAnalysis.frames) > 0) =>
    LET frames == audioAnalysis.frames
        patterns == prosody[1].intonationPatterns
        complete == 1..(Len(frames) \div WindowSize)
        Voices(w) == Cardinality({i \in ((w - 1) * WindowSize + 1)..(w * WindowSize) :
                                    ~frames[i].isSilent})
    IN /\ Len(patterns) = Cardinality({w \in complete : Voices(w) >= 3})
       /\ (\A i \in DOMAIN frames : ~frames[i].isSilent)
            => Len(patterns) = Len(frames) \div WindowSize
       /\ \A k \in 1..(Len(patterns) - 1) :
            patterns[k].timestamp < patterns[k + 1].timestamp

\* C36: an intonation event is rising iff the pitch of the last non-silent
\* frame of its window exceeds that of the first by more than 10 %, falling iff
\* it is lower by more than 10 %, and level otherwise (exactly 10 % either way
\* is level); when the first non-silent frame has pitch 0 the change counts as
\* 0: level, with magnitude 0.  The k-th event belongs to the k-th window the
\* loop visits that has at least 3 non-silent frames.
C36_IntonationType ==
  (prosody # <<>> /\ Len(audioAnalysis.frames) > 0) =>
    LET frames == audioAnalysis.frames
        patterns == prosody[1].intonationPatterns
        Window(w) == ((w - 1) * WindowSize + 1)..(w * WindowSize)
        Voiced_(w) == {i \in Window(w) : ~frames[i].isSilent}
        visited == {w \in 1..Len(frames) :
                      w * WindowSize < Len(frames) /\ Cardinality(Voiced_(w)) >= 3}
        WindowOf(k) == CHOOSE w \in visited :
                         Cardinality({v \in visited : v < w}) = k - 1
        Lowest(S) == CHOOSE i \in S : \A j \in S : i <= j
        Highest(S) == CHOOSE i \in S : \A j \in S : i >= j
    IN \A k \in DOMAIN patterns :
         LET first == frames[Lowest(Voiced_(WindowOf(k)))].pitch
             last_ == frames[Highest(Voiced_(WindowOf(k)))].pitch
             type == patterns[k].type
         IN /\ type \in {"rising", "falling", "level"}
            /\ type = "rising" <=> (first > 0 /\ (last_ - first) * 100 > 10 * first)
            /\ type = "falling" <=> (first > 0 /\ (first - last_) * 100 > 10 * first)
            /\ first = 0 => (type = "level" /\ patterns[k].magnitude = FZero)

\* C36 witness: a window whose non-silent frames go from 100 Hz to 110 Hz gave
\* a level event of magnitude 10.
C36_Witness ==
  /\ prosody # <<>>
  /\ Len(audioAnalysis.frames) = 6
  /\ audioAnalysis.frames[1].pitch = 100
  /\ audioAnalysis.frames[5].pitch = 110
  /\ Len(prosody[1].intonationPatterns) = 1
  /\ prosody[1].intonationPatterns[1].type = "level"
  /\ prosody[1].intonationPatterns[1].magnitude = FromInt(10)

\* C33: stressEventCount is the number of frames that are voiced, have an energy
\* strictly above that of the frame before and of the frame after, and strictly
\* above 1.5 times the mean energy of all frames; the first and the last frame
\* are never counted, and every event's intensity is min(100, rms / mean * 50),
\* which lies in [0, 100]
C33_StressEvents ==
  (prosody # <<>> /\ Len(audioAnalysis.frames) > 0) =>
    LET frames == audioAnalysis.frames
        n == Len(frames)
        RECURSIVE Total(_)
        Total(k) == IF k = 0 THEN 0 ELSE frames[k].rms + Total(k - 1)
        Stressed == {k \in 2..(n - 1) :
                       /\ ~frames[k].isSilent
                       /\ frames[k].rms > frames[k - 1].rms
                       /\ frames[k].rms > frames[k + 1].rms
                       /\ 2 * frames[k].rms * n > 3 * Total(n)}
        events == StressEvents(frames)
        meanRms == FDiv(FromInt(Total(n)), FromInt(n))
    IN /\ prosody[1].stressEventCount = Cardinality(Stressed)
       /\ Len(events) = prosody[1].stressEventCount
       /\ \A e \in 1..Len(events) :
            /\ events[e].timestamp # frames[1].timestamp
            /\ events[e].timestamp # frames[n].timestamp
            /\ FLe(FZero, events[e].intensity)
            /\ FLe(events[e].intensity, Hundred)
            /\ \E k \in Stressed :
                 /\ frames[k].timestamp = events[e].timestamp
                 /\ events[e].intensity
                      = FMin(Hundred, FMul(FDiv(FromInt(frames[k].rms), meanRms),
                                           FromInt(50)))
                 /\ frames[k].rms * n >= 2 * Total(n)
                      => events[e].intensity = Hundred

\* C33 witness: of three frames with energies 1, 3 and 1 the second is a
\* stress event of intensity 3 / (5/3) * 50, which is 90 to the nearest whole.
C33_Witness ==
  /\ prosody # <<>>
  /\ Len(audioAnalysis.frames) = 3
  /\ audioAnalysis.frames[1].rms = 1
  /\ audioAnalysis.frames[2].rms = 3
  /\ audioAnalysis.frames[3].rms = 1
  /\ prosody[1].stressEventCount = 1
  /\ MathRound(StressEvents(audioAnalysis.frames)[1].intensity) = 90

\* C34: for a non-empty frame sequence, speakingRate is slow iff (number of
\* non-silent frames * 100 ms) / totalDuration is below 0.5, fast iff it is above
\* 0.8, and normal otherwise, 0.5 and 0.8 included; with a totalDuration of 0 the
\* ratio is 0
C34_SpeakingRate ==
  (prosody # <<>> /\ Len(audioAnalysis.frames) > 0) =>
    LET frames == audioAnalysis.frames
        total == audioAnalysis.totalDuration
        spoken == 100 * Cardinality({i \in DOMAIN frames : ~frames[i].isSilent})
        rate == prosody[1].speakingRate
    IN /\ rate \in {"slow", "normal", "fast"}
       /\ total = 0 => rate = "slow"
       /\ total > 0 =>
            /\ rate = "slow" <=> 2 * spoken < total
            /\ rate = "fast" <=> 5 * spoken > 4 * total

\* C34 witness: four non-silent frames of five in 500 ms: the ratio is 0.8 and
\* the rate normal.
C34_Witness ==
  /\ prosody # <<>>
  /\ Len(audioAnalysis.frames) = 5
  /\ audioAnalysis.totalDuration = 500
  /\ Cardinality({i \in 1..5 : ~audioAnalysis.frames[i].isSilent}) = 4
  /\ prosody[1].speakingRate = "normal"

\* C35: rhythmConsistency is exactly 50 when the frame sequence has fewer than 2
\* maximal non-silent runs, the run that reaches the last frame included; with 2
\* runs or more it lies in [0, 100], and it is 100 when all run durations are
\* equal: when the frames come at the fixed sampling period and every run has
\* as many frames as every other.
C35_RhythmConsistency ==
  (prosody # <<>> /\ Len(audioAnalysis.frames) > 0) =>
    LET frames == audioAnalysis.frames
        n == Len(frames)
        starts == {a \in 1..n : ~frames[a].isSilent /\ (a = 1 \/ frames[a - 1].isSilent)}
        runFrames(a) == Cardinality({b \in a..n : \A c \in a..b : ~frames[c].isSilent})
        periodic == \A i \in 2..n :
                      frames[i].timestamp - frames[i - 1].timestamp = FramePeriod
        rhythm == prosody[1].rhythmConsistency
    IN /\ Cardinality(starts) < 2 => rhythm = FromInt(50)
       /\ Cardinality(starts) >= 2 =>
            /\ FLe(FZero, rhythm) /\ FLe(rhythm, Hundred)
            /\ (periodic /\ \A a, b \in starts : runFrames(a) = runFrames(b))
                 => rhythm = Hundred
=============================================================================
